---- MODULE Spec2Model ----
(***************************************************************************)
(* Client / project / invoice manager: the JSON-file store (utils/jsonDb), *)
(* the Express routes over it (routes/clients, routes/projects,            *)
(* routes/invoices) and the Mongoose Client/Project models.                *)
(*                                                                         *)
(* Money is kept in fixed point, in units of 1/Scale of a currency unit,   *)
(* so that x * percent / 100 is exact for the inputs drawn here.           *)
(* A request body is a partial record: a field the body does not carry is  *)
(* absent from its DOMAIN (JavaScript's undefined).                        *)
(***************************************************************************)
EXTENDS Integers, Sequences, FiniteSets, TLC

VARIABLES
  clients,    \* content of clients.json  (sequence of records)
  projects,   \* content of projects.json (sequence of records)
  invoices,   \* content of invoices.json (sequence of records)
  nextId,     \* source of generateId(): the next identifier never handed out
  resp,       \* the request answered last (a client or project request with its
              \* body) and the status code of its response
  reqs,       \* interleaved requests: each slot's request between its awaits
  started,    \* history: the number of interleaved requests started so far
  overlapped, \* history: a request has started while another was in flight
  mClients,   \* the Client documents of the Mongoose models
  mProjects,  \* the Project documents of the Mongoose models
  now,        \* the clock, new Date(), in days
  mInvoices,  \* the Invoice documents of the Mongoose models
  notifications, \* the Notification documents
  run,        \* the last run of a reminder job: what it found, handled and sent
  disk        \* the files: process.env.VERCEL, DB_DIR and the source db directory

vars == <<clients, projects, invoices, nextId, resp, reqs, started, overlapped,
          mClients, mProjects, now, mInvoices, notifications, run, disk>>

raceVars == <<reqs, started, overlapped>>

sweepVars == <<mInvoices, notifications, run>>

mongoVars == <<mClients, mProjects, now, sweepVars>>

\* what a request on the JSON store that runs to completion in one step leaves alone
diskVars == <<disk>>

otherVars == <<raceVars, mongoVars, diskVars>>

(***************************************************************************)
(* Bounds of the model.                                                    *)
(***************************************************************************)
MaxInvoices == 2
MaxIds == 3
MaxClients == 2
MaxConcurrent == 2
MaxRequests == 4
MaxProjects == 2
MaxNotifications == 2
MaxReminders == 2
MaxTime == 2

(***************************************************************************)
(* JavaScript values.                                                      *)
(***************************************************************************)
Scale == 100 * 100

NoBody == <<>>

Has(b, f) == f \in DOMAIN b

\* `x ? .. : ..` and `!x` on a numeric field: undefined and 0 are falsy.
TruthyNum(b, f) == Has(b, f) /\ b[f] # 0

\* the same on a string field: undefined and "" are falsy.
TruthyStr(b, f) == Has(b, f) /\ b[f] # ""

\* `b.f || d`
OrNum(b, f, d) == IF TruthyNum(b, f) THEN b[f] ELSE d

OrStr(b, f, d) == IF TruthyStr(b, f) THEN b[f] ELSE d

\* { ...old, ...upd }
Spread(old, upd) ==
  [f \in DOMAIN old \cup DOMAIN upd |-> IF f \in DOMAIN upd THEN upd[f] ELSE old[f]]

Indexes(s) == 1..Len(s)

\* s.findIndex(r => r.id === id), 0 for -1
FindIndex(s, id) ==
  IF \E i \in Indexes(s) : s[i].id = id
  THEN CHOOSE i \in Indexes(s) : s[i].id = id /\ \A j \in 1..(i - 1) : s[j].id # id
  ELSE 0

\* s.splice(i, 1)
Splice(s, i) == [j \in 1..(Len(s) - 1) |-> IF j < i THEN s[j] ELSE s[j + 1]]

(***************************************************************************)
(* utils/jsonDb: invoiceDb.                                                *)
(***************************************************************************)
invoiceDbFindById(invs, id) == FindIndex(invs, id)

invoiceDbCreate_Unshift(invs, invoiceData, id) == <<Spread([id |-> id], invoiceData)>> \o invs

invoiceDbCreate(invs, invoiceData, id) == Append(invs, Spread([id |-> id], invoiceData))

invoiceDbUpdate_Every(invs, id, updateData) ==
  [i \in Indexes(invs) |-> Spread(invs[i], updateData)]

invoiceDbUpdate(invs, id, updateData) ==
  LET invoiceIndex == FindIndex(invs, id) IN
  IF invoiceIndex = 0 THEN invs
  ELSE [invs EXCEPT ![invoiceIndex] = Spread(invs[invoiceIndex], updateData)]

invoiceDbDelete(invs, id) ==
  LET invoiceIndex == FindIndex(invs, id) IN
  IF invoiceIndex = 0 THEN invs ELSE Splice(invs, invoiceIndex)

\* clients.find(c => c.id === id), as an index
clientDbFindById_First(cls, id) == IF Len(cls) > 0 THEN 1 ELSE 0

clientDbFindById(cls, id) == FindIndex(cls, id)

(***************************************************************************)
(* routes/invoices: totals.                                                *)
(***************************************************************************)
RECURSIVE SumQR(_)
\* items.reduce((sum, item) => sum + (item.quantity * item.rate), 0)
SumQR(items) ==
  IF items = <<>> THEN 0
  ELSE SumQR(SubSeq(items, 1, Len(items) - 1))
       + items[Len(items)].quantity * items[Len(items)].rate

\* items.map(item => ({description, quantity, rate, amount: quantity * rate}))
MapItems(items) ==
  [i \in Indexes(items) |->
     [description |-> items[i].description, quantity |-> items[i].quantity,
      rate |-> items[i].rate, amount |-> items[i].quantity * items[i].rate]]

Totals_TaxOnRawSubtotal(body) ==
  LET subtotal == SumQR(body.items)
      discountAmount == IF TruthyNum(body, "discount")
                        THEN (subtotal * body.discount) \div 100 ELSE 0
      taxAmount == IF TruthyNum(body, "tax")
                   THEN (subtotal * body.tax) \div 100 ELSE 0
  IN [subtotal |-> subtotal, discountAmount |-> discountAmount,
      taxAmount |-> taxAmount, total |-> subtotal - discountAmount + taxAmount]

\* POST /api/invoices, "Calculate totals"
PostTotals(body) ==
  LET subtotal == SumQR(body.items)
      discountAmount == IF TruthyNum(body, "discount")
                        THEN (subtotal * body.discount) \div 100 ELSE 0
      taxAmount == IF TruthyNum(body, "tax")
                   THEN ((subtotal - discountAmount) * body.tax) \div 100 ELSE 0
  IN [subtotal |-> subtotal, discountAmount |-> discountAmount,
      taxAmount |-> taxAmount, total |-> subtotal - discountAmount + taxAmount]

\* PUT /api/invoices/:id, "Calculate totals if items are provided"
PutTotals(body) ==
  LET subtotal == SumQR(body.items)
      discountAmount == IF TruthyNum(body, "discount")
                        THEN (subtotal * body.discount) \div 100 ELSE 0
      taxAmount == IF TruthyNum(body, "tax")
                   THEN ((subtotal - discountAmount) * body.tax) \div 100 ELSE 0
  IN [subtotal |-> subtotal, discountAmount |-> discountAmount,
      taxAmount |-> taxAmount, total |-> subtotal - discountAmount + taxAmount]

\* client/src/pages/InvoicesPage.tsx: the form's own totals
calculateTotals(formData) ==
  LET subtotal == SumQR(formData.items)
      discountAmount == IF formData.discount # 0
                        THEN (subtotal * formData.discount) \div 100 ELSE 0
      taxAmount == IF formData.tax # 0
                   THEN ((subtotal - discountAmount) * formData.tax) \div 100 ELSE 0
  IN [subtotal |-> subtotal, discountAmount |-> discountAmount,
      taxAmount |-> taxAmount, total |-> subtotal - discountAmount + taxAmount]

RECURSIVE Digits(_)
\* String(n)
Digits(n) == IF n < 10 THEN <<n>> ELSE Append(Digits(n \div 10), n % 10)

RECURSIVE PadStart(_, _, _)
\* s.padStart(len, fill)
PadStart(s, len, fill) == IF Len(s) >= len THEN s ELSE PadStart(<<fill>> \o s, len, fill)

\* `INV-${String(invoices.length + 1).padStart(4, '0')}`
InvoiceNumber(invs) == [prefix |-> "INV-", digits |-> PadStart(Digits(Len(invs) + 1), 4, 0)]

(***************************************************************************)
(* routes/invoices: the handlers.  Each answers with resp.                 *)
(***************************************************************************)
Answer(op, id, body, code) == [op |-> op, id |-> id, body |-> body, code |-> code]

\* POST /api/invoices
CreateInvoice(body) ==
  IF ~TruthyNum(body, "clientId") \/ ~Has(body, "items") \/ Len(body.items) = 0
  THEN /\ resp' = Answer("POST /invoices", 0, NoBody, 400)
       /\ UNCHANGED <<clients, projects, invoices, nextId>>
  ELSE IF clientDbFindById(clients, body.clientId) = 0
  THEN /\ resp' = Answer("POST /invoices", 0, NoBody, 400)
       /\ UNCHANGED <<clients, projects, invoices, nextId>>
  ELSE
    LET t == PostTotals(body)
        newInvoice ==
          [invoiceNumber |-> InvoiceNumber(invoices),
           clientId |-> body.clientId,
           projectId |-> OrNum(body, "projectId", 0),
           items |-> MapItems(body.items),
           subtotal |-> t.subtotal,
           discount |-> OrNum(body, "discount", 0),
           discountAmount |-> t.discountAmount,
           tax |-> OrNum(body, "tax", 0),
           taxAmount |-> t.taxAmount,
           total |-> t.total,
           status |-> "draft",
           dueDate |-> OrNum(body, "dueDate", now + 30),
           createdAt |-> now]
        stored == invoiceDbCreate(invoices, newInvoice, nextId)
    IN /\ invoices' = stored
       /\ nextId' = nextId + 1
       /\ resp' = Answer("POST /invoices", nextId, NoBody, 201)
       /\ UNCHANGED <<clients, projects>>

\* PUT /api/invoices/:id
UpdateInvoice(id, body) ==
  IF invoiceDbFindById(invoices, id) = 0
  THEN /\ resp' = Answer("PUT /invoices/:id", id, NoBody, 404)
       /\ UNCHANGED <<clients, projects, invoices, nextId>>
  ELSE
    LET t == PutTotals(body)
        updateData ==
          IF Has(body, "items")
          THEN Spread(body, [items |-> MapItems(body.items), subtotal |-> t.subtotal,
                             discountAmount |-> t.discountAmount,
                             taxAmount |-> t.taxAmount, total |-> t.total])
          ELSE body
        stored == invoiceDbUpdate(invoices, id, updateData)
    IN /\ invoices' = stored
       /\ resp' = Answer("PUT /invoices/:id", id, NoBody, 200)
       /\ UNCHANGED <<clients, projects, nextId>>

InvoiceDeletable_AnyStatus(invoice) == TRUE

\* "Only allow deletion of draft invoices"
InvoiceDeletable(invoice) == invoice.status = "draft"

\* DELETE /api/invoices/:id
DeleteInvoice(id) ==
  LET i == invoiceDbFindById(invoices, id) IN
  IF i = 0
  THEN /\ resp' = Answer("DELETE /invoices/:id", id, NoBody, 404)
       /\ UNCHANGED <<clients, projects, invoices, nextId>>
  ELSE IF ~InvoiceDeletable(invoices[i])
  THEN /\ resp' = Answer("DELETE /invoices/:id", id, NoBody, 400)
       /\ UNCHANGED <<clients, projects, invoices, nextId>>
  ELSE /\ invoices' = invoiceDbDelete(invoices, id)
       /\ resp' = Answer("DELETE /invoices/:id", id, NoBody, 200)
       /\ UNCHANGED <<clients, projects, nextId>>

StatusWhitelist == {"draft", "sent", "paid", "overdue", "cancelled"}

\* PUT /api/invoices/:id/status
UpdateInvoiceStatus(id, body) ==
  IF ~(Has(body, "status") /\ body.status \in StatusWhitelist)
  THEN /\ resp' = Answer("PUT /invoices/:id/status", id, NoBody, 400)
       /\ UNCHANGED <<clients, projects, invoices, nextId>>
  ELSE IF invoiceDbFindById(invoices, id) = 0
  THEN /\ resp' = Answer("PUT /invoices/:id/status", id, NoBody, 404)
       /\ UNCHANGED <<clients, projects, invoices, nextId>>
  ELSE
    LET stored == invoiceDbUpdate(invoices, id, [status |-> body.status])
    IN /\ invoices' = stored
       /\ resp' = Answer("PUT /invoices/:id/status", id, NoBody, 200)
       /\ UNCHANGED <<clients, projects, nextId>>

(***************************************************************************)
(* utils/jsonDb: clientDb, and routes/clients.                             *)
(***************************************************************************)
clientDbCreate(cls, clientData, id) == Append(cls, Spread([id |-> id], clientData))

clientDbWriteAll(cls) == cls

\* clients.find(c => c.email === email)
ExistingClient_Never(cls, email) == FALSE

ExistingClient(cls, email) == \E i \in Indexes(cls) : cls[i].email = email

NewClient_SpreadBody(body, id) ==
  Spread([id |-> id,
          name |-> body.name,
          email |-> body.email,
          company |-> OrStr(body, "company", ""),
          status |-> OrStr(body, "status", "active"),
          totalProjects |-> 0,
          totalRevenue |-> 0],
         [f \in DOMAIN body \cap {"totalProjects", "totalRevenue"} |-> body[f]])

\* POST /api/clients: const newClient = { id: generateId(), name, email, ... }
NewClient(body, id) ==
  [id |-> id,
   name |-> body.name,
   email |-> body.email,
   company |-> OrStr(body, "company", ""),
   status |-> OrStr(body, "status", "active"),
   totalProjects |-> 0,
   totalRevenue |-> 0]

\* POST /api/clients
CreateClient(body) ==
  IF ~TruthyStr(body, "name") \/ ~TruthyStr(body, "email")
  THEN /\ resp' = Answer("POST /clients", 0, body, 400)
       /\ UNCHANGED <<clients, projects, invoices, nextId>>
  ELSE IF ExistingClient(clients, body.email)
  THEN /\ resp' = Answer("POST /clients", 0, body, 400)
       /\ UNCHANGED <<clients, projects, invoices, nextId>>
  ELSE
    \* the route's generateId() is nextId; the one clientDb.create draws is
    \* overwritten by the spread of clientData and lost
    LET stored == clientDbCreate(clients, NewClient(body, nextId), nextId + 1)
    IN /\ clients' = clientDbWriteAll(stored)
       /\ nextId' = nextId + 1
       /\ resp' = Answer("POST /clients", nextId, body, 201)
       /\ UNCHANGED <<projects, invoices>>

\* PUT /api/clients/:id: the email is being changed to one another client has
EmailTaken(cls, id, body) ==
  /\ TruthyStr(body, "email")
  /\ body.email # cls[FindIndex(cls, id)].email
  /\ \E i \in Indexes(cls) : cls[i].email = body.email /\ cls[i].id # id

\* PUT /api/clients/:id: const updatedClient = { ...client, name: name || client.name, ... }
UpdatedClient(client, body) ==
  Spread(client,
         [name |-> OrStr(body, "name", client.name),
          email |-> OrStr(body, "email", client.email),
          company |-> IF Has(body, "company") THEN body.company ELSE client.company,
          status |-> OrStr(body, "status", client.status)])

\* PUT /api/clients/:id
UpdateClient(id, body) ==
  LET clientIndex == FindIndex(clients, id) IN
  IF clientIndex = 0
  THEN /\ resp' = Answer("PUT /clients/:id", id, body, 404)
       /\ UNCHANGED <<clients, projects, invoices, nextId>>
  ELSE IF EmailTaken(clients, id, body)
  THEN /\ resp' = Answer("PUT /clients/:id", id, body, 400)
       /\ UNCHANGED <<clients, projects, invoices, nextId>>
  ELSE
    LET updatedClient == UpdatedClient(clients[clientIndex], body)
    IN /\ clients' = clientDbWriteAll([clients EXCEPT ![clientIndex] = updatedClient])
       /\ resp' = Answer("PUT /clients/:id", id, body, 200)
       /\ UNCHANGED <<projects, invoices, nextId>>

\* DELETE /api/clients/:id
DeleteClient(id) ==
  LET clientIndex == FindIndex(clients, id) IN
  IF clientIndex = 0
  THEN /\ resp' = Answer("DELETE /clients/:id", id, NoBody, 404)
       /\ UNCHANGED <<clients, projects, invoices, nextId>>
  ELSE /\ clients' = clientDbWriteAll(Splice(clients, clientIndex))
       /\ resp' = Answer("DELETE /clients/:id", id, NoBody, 200)
       /\ UNCHANGED <<projects, invoices, nextId>>

(***************************************************************************)
(* Invoice lifecycle: the invoice routes over a store that holds the       *)
(* client "Acme" (what POST /clients leaves after one request).            *)
(***************************************************************************)
Acme == [name |-> "Acme", email |-> "a@acme.com"]

NoResp == Answer("none", 0, NoBody, 0)

Slots == 1..MaxConcurrent

Idle == [pc |-> "idle"]

\* the files of initializeDatabase
Files == {"users.json", "clients.json", "projects.json", "invoices.json"}

\* the content of a file: none, text JSON.parse rejects, or JSON.stringify(data)
Missing == [kind |-> "missing"]

Corrupt == [kind |-> "corrupt"]

Json(data) == [kind |-> "json", data |-> data]

\* a local process (no VERCEL): DB_DIR is the source db directory, every
\* collection file there and empty
LocalDisk == [vercel |-> FALSE, db |-> [f \in Files |-> Json(<<>>)],
              source |-> [f \in Files |-> Json(<<>>)]]

\* no reminder job has run
NoRun == [job |-> "none", prev |-> "none", found |-> <<>>, attempted |-> <<>>,
          emitted |-> <<>>, sends |-> <<>>]

\* schema defaults of the Client model
ClientDoc(id) == [id |-> id, totalProjects |-> 0, totalRevenue |-> 0]

InitOther ==
  /\ disk = LocalDisk
  /\ reqs = [s \in Slots |-> Idle]
  /\ started = 0
  /\ overlapped = FALSE
  /\ mClients = <<ClientDoc(1), ClientDoc(2)>>
  /\ mProjects = <<>>
  /\ now = 0
  /\ mInvoices = <<>>
  /\ notifications = <<>>
  /\ run = NoRun

InitInvoices ==
  /\ clients = <<NewClient(Acme, 1)>>
  /\ projects = <<>>
  /\ invoices = <<>>
  /\ nextId = 2
  /\ resp = NoResp
  /\ InitOther

Item(q, r) == [description |-> "work", quantity |-> q, rate |-> r * Scale]

\* the subsets of a body's optional fields, each with its values
Opt(f, values) == {NoBody} \cup {(f :> v) : v \in values}

ValidPost == ("clientId" :> 1) @@ ("items" :> <<Item(2, 50)>>)

\* requests the validation of POST /api/invoices rejects
InvalidPostBodies ==
  {("clientId" :> 2) @@ ("items" :> <<Item(2, 50)>>),
   ("clientId" :> 1) @@ ("items" :> <<>>),
   ("clientId" :> 1),
   ("items" :> <<Item(2, 50)>>)}

LifecyclePostBodies ==
  {ValidPost @@ ("discount" :> 10) @@ ("tax" :> 8)} \cup InvalidPostBodies

LifecyclePutBodies ==
  {("discount" :> 20),
   ("items" :> <<Item(1, 30), Item(2, 50)>>) @@ ("discount" :> 20),
   ("status" :> "paid")}

StatusBodies == {("status" :> s) : s \in StatusWhitelist \cup {"void"}}

InvoiceIds == 2..(MaxIds + 1)

PostInvoice ==
  /\ \E body \in LifecyclePostBodies : CreateInvoice(body)
  /\ invoices' # invoices => (Len(invoices) < MaxInvoices /\ nextId <= MaxIds)
  /\ UNCHANGED otherVars

PutInvoice ==
  /\ \E id \in InvoiceIds, body \in LifecyclePutBodies : UpdateInvoice(id, body)
  /\ UNCHANGED otherVars

PutInvoiceStatus ==
  /\ \E id \in InvoiceIds, body \in StatusBodies : UpdateInvoiceStatus(id, body)
  /\ UNCHANGED otherVars

DelInvoice ==
  /\ \E id \in InvoiceIds : DeleteInvoice(id)
  /\ UNCHANGED otherVars

NextInvoices == PostInvoice \/ PutInvoice \/ PutInvoiceStatus \/ DelInvoice

SpecInvoices == InitInvoices /\ [][NextInvoices]_vars

(***************************************************************************)
(* Invoice editing: POST, PUT /:id with every subset of items, discount    *)
(* and tax, and PUT /:id/status.                                           *)
(***************************************************************************)
EditPostBodies ==
  {ValidPost @@ d @@ t : d \in Opt("discount", {10}), t \in Opt("tax", {8})}

EditPutBodies ==
  {i @@ d @@ t :
     i \in Opt("items", {<<Item(1, 30), Item(2, 50)>>}),
     d \in Opt("discount", {0, 50}),
     t \in Opt("tax", {18})}

EditStatusBodies == {("status" :> s) : s \in {"sent", "paid"}}

PostInvoiceEdit ==
  /\ \E body \in EditPostBodies : CreateInvoice(body)
  /\ invoices' # invoices => (Len(invoices) < MaxInvoices /\ nextId <= MaxIds)
  /\ UNCHANGED otherVars

PutInvoiceEdit ==
  /\ \E id \in InvoiceIds, body \in EditPutBodies : UpdateInvoice(id, body)
  /\ UNCHANGED otherVars

PutInvoiceStatusEdit ==
  /\ \E id \in InvoiceIds, body \in EditStatusBodies : UpdateInvoiceStatus(id, body)
  /\ UNCHANGED otherVars

NextInvoiceEdit == PostInvoiceEdit \/ PutInvoiceEdit \/ PutInvoiceStatusEdit

SpecInvoiceEdit == InitInvoices /\ [][NextInvoiceEdit]_vars

(***************************************************************************)
(* The totals of POST /api/invoices as a function of the request: one      *)
(* invoice at a time, over a wide set of item lists and percentages.       *)
(***************************************************************************)
TotalsItemLists ==
  {<<Item(2, 50)>>,
   <<Item(1, 30), Item(2, 50)>>,
   <<Item(3, 0)>>,
   <<Item(1, 1), Item(1, 2), Item(1, 3)>>,
   <<Item(7, 99)>>}

Percentages == {0, 5, 8, 10, 50, 100}

TotalsPostBodies ==
  {("clientId" :> 1) @@ ("items" :> l) @@ d @@ t :
     l \in TotalsItemLists, d \in Opt("discount", Percentages), t \in Opt("tax", Percentages)}
  \cup InvalidPostBodies

PostInvoiceTotals ==
  /\ \E body \in TotalsPostBodies : CreateInvoice(body)
  /\ invoices' # invoices => (invoices = <<>> /\ nextId <= MaxIds)
  /\ UNCHANGED otherVars

NextTotals == PostInvoiceTotals \/ DelInvoice

SpecTotals == InitInvoices /\ [][NextTotals]_vars

(***************************************************************************)
(* Client requests, one after another, on a store that starts empty.       *)
(***************************************************************************)
InitClients ==
  /\ clients = <<>>
  /\ projects = <<>>
  /\ invoices = <<>>
  /\ nextId = 1
  /\ resp = NoResp
  /\ InitOther

Emails == {"a@acme.com", "b@bolt.io"}

\* fields POST /api/clients does not read
Counters == ("totalProjects" :> 5) @@ ("totalRevenue" :> 900)

ClientPostBodies ==
  {n @@ e @@ j : n \in Opt("name", {"Acme"}), e \in Opt("email", Emails), j \in {NoBody, Counters}}

ClientPutBodies ==
  {e @@ t : e \in Opt("email", Emails), t \in Opt("status", {"inactive"})}

ClientIds == 1..(MaxIds + 1)

PostClient ==
  /\ \E body \in ClientPostBodies : CreateClient(body)
  /\ nextId' # nextId => nextId <= MaxIds
  /\ UNCHANGED otherVars

PutClient ==
  /\ \E id \in ClientIds, body \in ClientPutBodies : UpdateClient(id, body)
  /\ UNCHANGED otherVars

DelClient ==
  /\ \E id \in ClientIds : DeleteClient(id)
  /\ UNCHANGED otherVars

NextClients == PostClient \/ PutClient \/ DelClient

SpecClients == InitClients /\ [][NextClients]_vars

(***************************************************************************)
(* Client requests interleaved.  A handler gives up control at each await: *)
(* between its read of clients.json and its write of it the steps of       *)
(* another request can run.  Each action below is one run-to-completion    *)
(* segment of a handler, from the completion of one file access to the     *)
(* next.                                                                   *)
(***************************************************************************)
Busy(slot) == reqs[slot].pc # "idle"

\* the request in `slot` starts (slots are interchangeable: the lowest idle one
\* is taken): does another one run already?
Starts(slot) ==
  /\ started < MaxRequests
  /\ started' = started + 1
  /\ \A o \in 1..(slot - 1) : Busy(o)
  /\ overlapped' = (overlapped \/ \E o \in Slots \ {slot} : Busy(o))

\* POST /api/clients up to the call of clientDb.create: getAll, validation,
\* duplicate check, newClient
PostClientRead(slot, body) ==
  /\ ~Busy(slot)
  /\ Starts(slot)
  /\ UNCHANGED <<clients, projects, invoices>>
  /\ IF ~TruthyStr(body, "name") \/ ~TruthyStr(body, "email")
        \/ ExistingClient(clients, body.email)
     THEN /\ resp' = Answer("POST /clients", 0, NoBody, 400)
          /\ UNCHANGED <<reqs, nextId>>
     ELSE /\ reqs' = [reqs EXCEPT ![slot] = [pc |-> "create", data |-> NewClient(body, nextId)]]
          /\ nextId' = nextId + 1
          /\ UNCHANGED resp

\* clientDb.create: const clients = await readJsonFile('clients.json')
PostClientCreateRead(slot) ==
  /\ reqs[slot].pc = "create"
  /\ reqs' = [reqs EXCEPT ![slot] = [pc |-> "write", data |-> reqs[slot].data,
                                     snapshot |-> clients]]
  /\ UNCHANGED <<clients, projects, invoices, nextId, resp, started, overlapped>>

PostClientWrite_Reread(slot) ==
  /\ reqs[slot].pc = "write"
  /\ clients' = clientDbWriteAll(clientDbCreate(clients, reqs[slot].data, nextId))
  /\ resp' = Answer("POST /clients", reqs[slot].data.id, NoBody, 201)
  /\ reqs' = [reqs EXCEPT ![slot] = Idle]
  /\ UNCHANGED <<projects, invoices, nextId, started, overlapped>>

\* clientDb.create: clients.push(newClient); await writeJsonFile(...); and the answer
PostClientWrite(slot) ==
  /\ reqs[slot].pc = "write"
  /\ clients' = clientDbWriteAll(clientDbCreate(reqs[slot].snapshot, reqs[slot].data, nextId))
  /\ resp' = Answer("POST /clients", reqs[slot].data.id, NoBody, 201)
  /\ reqs' = [reqs EXCEPT ![slot] = Idle]
  /\ UNCHANGED <<projects, invoices, nextId, started, overlapped>>

\* PUT /api/clients/:id up to the call of clientDb.writeAll
PutClientRead(slot, id, body) ==
  /\ ~Busy(slot)
  /\ Starts(slot)
  /\ UNCHANGED <<clients, projects, invoices, nextId>>
  /\ LET clientIndex == FindIndex(clients, id) IN
     IF clientIndex = 0
     THEN /\ resp' = Answer("PUT /clients/:id", id, NoBody, 404)
          /\ UNCHANGED reqs
     ELSE IF EmailTaken(clients, id, body)
     THEN /\ resp' = Answer("PUT /clients/:id", id, NoBody, 400)
          /\ UNCHANGED reqs
     ELSE /\ reqs' = [reqs EXCEPT ![slot] =
                        [pc |-> "writeAll", op |-> "PUT /clients/:id", id |-> id,
                         snapshot |-> [clients EXCEPT ![clientIndex] =
                                         UpdatedClient(clients[clientIndex], body)]]]
          /\ UNCHANGED resp

\* DELETE /api/clients/:id up to the call of clientDb.writeAll
DelClientRead(slot, id) ==
  /\ ~Busy(slot)
  /\ Starts(slot)
  /\ UNCHANGED <<clients, projects, invoices, nextId>>
  /\ LET clientIndex == FindIndex(clients, id) IN
     IF clientIndex = 0
     THEN /\ resp' = Answer("DELETE /clients/:id", id, NoBody, 404)
          /\ UNCHANGED reqs
     ELSE /\ reqs' = [reqs EXCEPT ![slot] =
                        [pc |-> "writeAll", op |-> "DELETE /clients/:id", id |-> id,
                         snapshot |-> Splice(clients, clientIndex)]]
          /\ UNCHANGED resp

\* await clientDb.writeAll(clients) of PUT and DELETE, and the answer
ClientWriteAll(slot) ==
  /\ reqs[slot].pc = "writeAll"
  /\ clients' = clientDbWriteAll(reqs[slot].snapshot)
  /\ resp' = Answer(reqs[slot].op, reqs[slot].id, NoBody, 200)
  /\ reqs' = [reqs EXCEPT ![slot] = Idle]
  /\ UNCHANGED <<projects, invoices, nextId, started, overlapped>>

RacePostBodies == {("name" :> "Acme") @@ ("email" :> e) : e \in Emails}

RacePutBodies == {("email" :> e) : e \in Emails}

RaceIds == 1..MaxClients

RacePostRead ==
  /\ \E slot \in Slots, body \in RacePostBodies : PostClientRead(slot, body)
  /\ nextId' # nextId => nextId <= MaxClients
  /\ UNCHANGED <<mongoVars, diskVars>>

RacePostCreateRead ==
  /\ \E slot \in Slots : PostClientCreateRead(slot)
  /\ UNCHANGED <<mongoVars, diskVars>>

RacePostWrite ==
  /\ \E slot \in Slots : PostClientWrite(slot)
  /\ UNCHANGED <<mongoVars, diskVars>>

RacePutRead ==
  /\ \E slot \in Slots, id \in RaceIds, body \in RacePutBodies : PutClientRead(slot, id, body)
  /\ UNCHANGED <<mongoVars, diskVars>>

RaceDelRead ==
  /\ \E slot \in Slots, id \in RaceIds : DelClientRead(slot, id)
  /\ UNCHANGED <<mongoVars, diskVars>>

RaceWriteAll ==
  /\ \E slot \in Slots : ClientWriteAll(slot)
  /\ UNCHANGED <<mongoVars, diskVars>>

NextClientsRace ==
  \/ RacePostRead \/ RacePostCreateRead \/ RacePostWrite
  \/ RacePutRead \/ RaceDelRead \/ RaceWriteAll

SpecClientsRace == InitClients /\ [][NextClientsRace]_vars

(***************************************************************************)
(* utils/jsonDb: projectDb, and routes/projects.                           *)
(***************************************************************************)
\* a date is <<t>>, null is << >>
Null == <<>>

projectDbFindById(prs, id) == FindIndex(prs, id)

projectDbCreate(prs, projectData, id) == Append(prs, Spread([id |-> id], projectData))

projectDbUpdate(prs, id, updateData) ==
  LET projectIndex == FindIndex(prs, id) IN
  IF projectIndex = 0 THEN prs
  ELSE [prs EXCEPT ![projectIndex] = Spread(prs[projectIndex], updateData)]

projectDbDelete(prs, id) ==
  LET projectIndex == FindIndex(prs, id) IN
  IF projectIndex = 0 THEN prs ELSE Splice(prs, projectIndex)

\* POST /api/projects: const newProject = { title, ..., clientId, ..., budget: budget || 0, ... }
NewProject(body) ==
  [title |-> body.title,
   clientId |-> body.clientId,
   endDate |-> IF TruthyNum(body, "endDate") THEN <<body.endDate>> ELSE Null,
   budget |-> OrNum(body, "budget", 0),
   status |-> OrStr(body, "status", "pending"),
   progress |-> 0]

\* "Update client's project count" of POST /api/projects
IncrementTotalProjects(cls, clientId) ==
  LET clientIndex == FindIndex(cls, clientId) IN
  IF clientIndex = 0 THEN cls
  ELSE [cls EXCEPT ![clientIndex].totalProjects = OrNum(cls[clientIndex], "totalProjects", 0) + 1]

\* "Update client's project count" of DELETE /api/projects/:id
DecrementTotalProjects(cls, clientId) ==
  LET clientIndex == FindIndex(cls, clientId)
      n == OrNum(cls[clientIndex], "totalProjects", 1) - 1
  IN IF clientIndex = 0 THEN cls
     ELSE [cls EXCEPT ![clientIndex].totalProjects = IF n > 0 THEN n ELSE 0]

\* POST /api/projects
CreateProject(body) ==
  IF ~TruthyStr(body, "title") \/ ~TruthyNum(body, "clientId")
  THEN /\ resp' = Answer("POST /projects", 0, body, 400)
       /\ UNCHANGED <<clients, projects, invoices, nextId>>
  ELSE IF clientDbFindById(clients, body.clientId) = 0
  THEN /\ resp' = Answer("POST /projects", 0, body, 400)
       /\ UNCHANGED <<clients, projects, invoices, nextId>>
  ELSE /\ projects' = projectDbCreate(projects, NewProject(body), nextId)
       /\ nextId' = nextId + 1
       /\ clients' = clientDbWriteAll(IncrementTotalProjects(clients, body.clientId))
       /\ resp' = Answer("POST /projects", nextId, body, 201)
       /\ UNCHANGED invoices

\* PUT /api/projects/:id
UpdateProject(id, body) ==
  LET i == projectDbFindById(projects, id) IN
  IF i = 0
  THEN /\ resp' = Answer("PUT /projects/:id", id, body, 404)
       /\ UNCHANGED <<clients, projects, invoices, nextId>>
  ELSE IF /\ TruthyNum(body, "clientId")
          /\ body.clientId # projects[i].clientId
          /\ clientDbFindById(clients, body.clientId) = 0
  THEN /\ resp' = Answer("PUT /projects/:id", id, body, 400)
       /\ UNCHANGED <<clients, projects, invoices, nextId>>
  ELSE /\ projects' = projectDbUpdate(projects, id,
                        [title |-> OrStr(body, "title", projects[i].title),
                         clientId |-> OrNum(body, "clientId", projects[i].clientId),
                         endDate |-> IF Has(body, "endDate") THEN <<body.endDate>>
                                     ELSE projects[i].endDate,
                         budget |-> IF Has(body, "budget") THEN body.budget
                                    ELSE projects[i].budget,
                         status |-> OrStr(body, "status", projects[i].status),
                         progress |-> IF Has(body, "progress") THEN body.progress
                                      ELSE projects[i].progress])
       /\ resp' = Answer("PUT /projects/:id", id, body, 200)
       /\ UNCHANGED <<clients, invoices, nextId>>

\* DELETE /api/projects/:id
DeleteProject(id) ==
  LET i == projectDbFindById(projects, id) IN
  IF i = 0
  THEN /\ resp' = Answer("DELETE /projects/:id", id, NoBody, 404)
       /\ UNCHANGED <<clients, projects, invoices, nextId>>
  ELSE /\ projects' = projectDbDelete(projects, id)
       /\ clients' = clientDbWriteAll(DecrementTotalProjects(clients, projects[i].clientId))
       /\ resp' = Answer("DELETE /projects/:id", id, NoBody, 200)
       /\ UNCHANGED <<invoices, nextId>>

(***************************************************************************)
(* Project requests, one after another, with the client requests that      *)
(* create and delete their clients, on a store that starts empty.          *)
(***************************************************************************)
AllIds == 1..(MaxIds + 1)

ProjectsClientBodies ==
  {("name" :> "Acme") @@ ("email" :> "a@acme.com"), ("name" :> "Bolt") @@ ("email" :> "b@bolt.io")}

ProjectPostBodies ==
  {("title" :> "Site") @@ c @@ x :
     c \in Opt("clientId", AllIds),
     x \in {NoBody, ("budget" :> 1000) @@ ("status" :> "completed")}}
  \cup {("clientId" :> 1)}

ProjectPutBodies ==
  {c @@ x : c \in Opt("clientId", AllIds), x \in Opt("status", {"completed"})}

ProjectsPostClient ==
  /\ \E body \in ProjectsClientBodies : CreateClient(body)
  /\ nextId' # nextId => nextId <= MaxIds
  /\ UNCHANGED otherVars

ProjectsDelClient ==
  /\ \E id \in AllIds : DeleteClient(id)
  /\ UNCHANGED otherVars

PostProject ==
  /\ \E body \in ProjectPostBodies : CreateProject(body)
  /\ nextId' # nextId => nextId <= MaxIds
  /\ UNCHANGED otherVars

PutProject ==
  /\ \E id \in AllIds, body \in ProjectPutBodies : UpdateProject(id, body)
  /\ UNCHANGED otherVars

DelProject ==
  /\ \E id \in AllIds : DeleteProject(id)
  /\ UNCHANGED otherVars

NextProjects ==
  ProjectsPostClient \/ ProjectsDelClient \/ PostProject \/ PutProject \/ DelProject

SpecProjects == InitClients /\ [][NextProjects]_vars

(***************************************************************************)
(* The Mongoose models: Project's save hooks and Client's updateStats.     *)
(* A date is <<t>>, null is << >>.                                         *)
(***************************************************************************)
RECURSIVE SumCompleted(_)
\* projects.reduce((total, project) =>
\*   project.status === 'completed' ? total + project.amount : total, 0)
SumCompleted(prs) ==
  IF prs = <<>> THEN 0
  ELSE SumCompleted(SubSeq(prs, 1, Len(prs) - 1))
       + (IF prs[Len(prs)].status = "completed" THEN prs[Len(prs)].amount ELSE 0)

\* Project.find({ clientId })
ProjectsOf(prs, clientId) == SelectSeq(prs, LAMBDA p : p.clientId = clientId)

updateStats_EveryClient(client, prs) ==
  [client EXCEPT !.totalProjects = Len(ProjectsOf(prs, client.id)),
                 !.totalRevenue = SumCompleted(prs)]

\* clientSchema.methods.updateStats, the document it saves
updateStats(client, prs) ==
  [client EXCEPT !.totalProjects = Len(ProjectsOf(prs, client.id)),
                 !.totalRevenue = SumCompleted(ProjectsOf(prs, client.id))]

projectPreSave_EveryCompletion(doc, statusModified) ==
  IF statusModified /\ doc.status = "completed"
  THEN [doc EXCEPT !.completedDate = <<now>>]
  ELSE doc

\* projectSchema.pre('save')
projectPreSave(doc, statusModified) ==
  IF statusModified /\ doc.status = "completed" /\ doc.completedDate = Null
  THEN [doc EXCEPT !.completedDate = <<now>>]
  ELSE doc

\* projectSchema.post('save'): the Client collection after it
projectPostSave(cls, prs, doc) ==
  LET i == FindIndex(cls, doc.clientId) IN
  IF i = 0 THEN cls ELSE [cls EXCEPT ![i] = updateStats(cls[i], prs)]

\* new Project(data).save(): status defaults to 'pending', completedDate to null
ProjectSaveNew(data) ==
  LET doc == projectPreSave([id |-> nextId,
                             clientId |-> data.clientId,
                             status |-> OrStr(data, "status", "pending"),
                             amount |-> data.amount,
                             completedDate |-> Null],
                            Has(data, "status"))
      saved == Append(mProjects, doc)
  IN /\ mProjects' = saved
     /\ mClients' = projectPostSave(mClients, saved, doc)
     /\ nextId' = nextId + 1
     /\ resp' = Answer("Project.save", nextId, NoBody, 200)
     /\ UNCHANGED <<clients, projects, invoices, now>>

\* a stored project with the fields of `patch` assigned, then save()
ProjectSaveModified(id, patch) ==
  LET i == FindIndex(mProjects, id)
      doc == projectPreSave(Spread(mProjects[i], patch),
                            Has(patch, "status") /\ patch.status # mProjects[i].status)
      saved == [mProjects EXCEPT ![i] = doc]
  IN /\ i # 0
     /\ mProjects' = saved
     /\ mClients' = projectPostSave(mClients, saved, doc)
     /\ resp' = Answer("Project.save", id, NoBody, 200)
     /\ UNCHANGED <<clients, projects, invoices, nextId, now>>

InitModels ==
  /\ clients = <<>>
  /\ projects = <<>>
  /\ invoices = <<>>
  /\ nextId = 3
  /\ resp = NoResp
  /\ InitOther

ProjectStatuses == {"pending", "completed"}

Amounts == {500, 1000}

\* the two Client documents and the id of none
OwnerIds == {1, 2, 9}

NewProjectData ==
  {("clientId" :> c) @@ ("amount" :> a) @@ s :
     c \in OwnerIds, a \in Amounts, s \in Opt("status", ProjectStatuses)}

ProjectPatches ==
  {("clientId" :> c) : c \in OwnerIds \cap {1, 2}}
  \cup {("status" :> s) : s \in ProjectStatuses}
  \cup {("amount" :> a) : a \in Amounts}

SaveNewProject ==
  /\ Len(mProjects) < MaxProjects
  /\ \E data \in NewProjectData : ProjectSaveNew(data)
  /\ UNCHANGED <<raceVars, sweepVars, diskVars>>

SaveProject ==
  /\ \E i \in Indexes(mProjects), patch \in ProjectPatches :
       ProjectSaveModified(mProjects[i].id, patch)
  /\ UNCHANGED <<raceVars, sweepVars, diskVars>>

NextModels == SaveNewProject \/ SaveProject

SpecModels == InitModels /\ [][NextModels]_vars

(***************************************************************************)
(* What the invoice routes store: POST with and without a projectId, PUT   *)
(* with an empty and a non-empty item list, DELETE, and the one project    *)
(* POST /api/projects stores for Acme.                                     *)
(***************************************************************************)
StorePostBodies ==
  {ValidPost @@ p : p \in Opt("projectId", {2})} \cup InvalidPostBodies

StorePutBodies == {("items" :> <<>>), ("items" :> <<Item(1, 30)>>)}

StoreProjectBodies == {("title" :> "Site") @@ ("clientId" :> 1)}

PostInvoiceStore ==
  /\ \E body \in StorePostBodies : CreateInvoice(body)
  /\ invoices' # invoices => (Len(invoices) < MaxInvoices /\ nextId <= MaxIds + 1)
  /\ UNCHANGED otherVars

PutInvoiceStore ==
  /\ \E id \in InvoiceIds, body \in StorePutBodies : UpdateInvoice(id, body)
  /\ UNCHANGED otherVars

PostProjectStore ==
  /\ \E body \in StoreProjectBodies : CreateProject(body)
  /\ projects = <<>> /\ nextId <= MaxIds
  /\ UNCHANGED otherVars

NextInvoiceStore == PostInvoiceStore \/ PutInvoiceStore \/ DelInvoice \/ PostProjectStore

SpecInvoiceStore == InitInvoices /\ [][NextInvoiceStore]_vars

(***************************************************************************)
(* POST /api/invoices interleaved at its awaits.  A request holds a slot   *)
(* from its start; when it is answered the slot keeps the answer (pc       *)
(* "done"), so each slot serves one request.                               *)
(***************************************************************************)
\* validation, then `await clientDb.findById(clientId)` and the client check
PostInvoiceStart(slot, body) ==
  /\ reqs[slot].pc = "idle"
  /\ \A o \in 1..(slot - 1) : reqs[o].pc # "idle"
  /\ started < MaxRequests
  /\ started' = started + 1
  /\ overlapped' = (overlapped \/ \E o \in Slots \ {slot} : reqs[o].pc \notin {"idle", "done"})
  /\ UNCHANGED <<clients, projects, invoices, nextId>>
  /\ IF ~TruthyNum(body, "clientId") \/ ~Has(body, "items") \/ Len(body.items) = 0
        \/ clientDbFindById(clients, body.clientId) = 0
     THEN /\ resp' = Answer("POST /invoices", 0, NoBody, 400)
          /\ UNCHANGED reqs
     ELSE /\ reqs' = [reqs EXCEPT ![slot] = [pc |-> "getAll", body |-> body]]
          /\ UNCHANGED resp

\* `const invoices = await invoiceDb.getAll()`, then invoiceNumber, totals and
\* newInvoice, up to the call of invoiceDb.create
PostInvoiceGetAll(slot) ==
  /\ reqs[slot].pc = "getAll"
  /\ LET body == reqs[slot].body
         t == PostTotals(body)
         newInvoice ==
           [invoiceNumber |-> InvoiceNumber(invoices),
            clientId |-> body.clientId,
            projectId |-> OrNum(body, "projectId", 0),
            items |-> MapItems(body.items),
            subtotal |-> t.subtotal,
            discount |-> OrNum(body, "discount", 0),
            discountAmount |-> t.discountAmount,
            tax |-> OrNum(body, "tax", 0),
            taxAmount |-> t.taxAmount,
            total |-> t.total,
            status |-> "draft",
            dueDate |-> OrNum(body, "dueDate", now + 30),
            createdAt |-> now]
     IN reqs' = [reqs EXCEPT ![slot] = [pc |-> "create", seen |-> Len(invoices),
                                        data |-> newInvoice]]
  /\ UNCHANGED <<clients, projects, invoices, nextId, resp, started, overlapped>>

\* invoiceDb.create: const invoices = await readJsonFile('invoices.json')
PostInvoiceCreateRead(slot) ==
  /\ reqs[slot].pc = "create"
  /\ reqs' = [reqs EXCEPT ![slot] = [pc |-> "write", seen |-> reqs[slot].seen,
                                     data |-> reqs[slot].data, snapshot |-> invoices]]
  /\ UNCHANGED <<clients, projects, invoices, nextId, resp, started, overlapped>>

PostInvoiceWrite_Renumber(slot) ==
  /\ reqs[slot].pc = "write"
  /\ LET stored == invoiceDbCreate(reqs[slot].snapshot,
                     [reqs[slot].data EXCEPT
                        !.invoiceNumber = InvoiceNumber(reqs[slot].snapshot)], nextId)
     IN /\ invoices' = stored
        /\ resp' = Answer("POST /invoices", nextId, NoBody, 201)
        /\ reqs' = [reqs EXCEPT ![slot] = [pc |-> "done", seen |-> reqs[slot].seen,
                                           code |-> 201, invoice |-> stored[Len(stored)]]]
  /\ nextId' = nextId + 1
  /\ UNCHANGED <<clients, projects, started, overlapped>>

\* invoiceDb.create: id, push, await writeJsonFile(...); then res.status(201)
\* with the invoice
PostInvoiceWrite(slot) ==
  /\ reqs[slot].pc = "write"
  /\ LET stored == invoiceDbCreate(reqs[slot].snapshot, reqs[slot].data, nextId)
     IN /\ invoices' = stored
        /\ resp' = Answer("POST /invoices", nextId, NoBody, 201)
        /\ reqs' = [reqs EXCEPT ![slot] = [pc |-> "done", seen |-> reqs[slot].seen,
                                           code |-> 201, invoice |-> stored[Len(stored)]]]
  /\ nextId' = nextId + 1
  /\ UNCHANGED <<clients, projects, started, overlapped>>

RaceInvoiceBodies ==
  {ValidPost, ValidPost @@ ("discount" :> 10), ("clientId" :> 1) @@ ("items" :> <<>>)}

RaceInvoiceStart ==
  /\ \E slot \in Slots, body \in RaceInvoiceBodies : PostInvoiceStart(slot, body)
  /\ UNCHANGED <<mongoVars, diskVars>>

RaceInvoiceGetAll ==
  /\ \E slot \in Slots : PostInvoiceGetAll(slot)
  /\ UNCHANGED <<mongoVars, diskVars>>

RaceInvoiceCreateRead ==
  /\ \E slot \in Slots : PostInvoiceCreateRead(slot)
  /\ UNCHANGED <<mongoVars, diskVars>>

RaceInvoiceWrite ==
  /\ \E slot \in Slots : PostInvoiceWrite(slot)
  /\ UNCHANGED <<mongoVars, diskVars>>

NextInvoicesRace ==
  RaceInvoiceStart \/ RaceInvoiceGetAll \/ RaceInvoiceCreateRead \/ RaceInvoiceWrite

SpecInvoicesRace == InitInvoices /\ [][NextInvoicesRace]_vars

(***************************************************************************)
(* utils/cronJobs: the reminder jobs over the Mongoose collections, and    *)
(* Notification.createNotification.  Dates are in days; a user id is <<u>>. *)
(* A run of a job is one step: nothing else touches the collections while  *)
(* it runs.                                                                *)
(***************************************************************************)
\* `doc.userId || null`
UserIdOf(doc) == IF TruthyNum(doc, "userId") THEN <<doc.userId>> ELSE Null

\* notificationSchema.statics.createNotification: save() validates the
\* document (userId is required), and the error is thrown again
createNotification(notes, data) ==
  IF data.userId = Null
  THEN [threw |-> TRUE, notifications |-> notes]
  ELSE [threw |-> FALSE, notifications |-> Append(notes, data)]

\* what a run has done so far
StartRun == [notifications |-> notifications, invoices |-> mInvoices,
             attempted |-> <<>>, emitted |-> <<>>, sends |-> <<>>]

\* sendDeadlineNotifications: the in-app record, then email, then WhatsApp
sendDeadlineNotifications(project, priority, st, emailFails, whatsappFails) ==
  LET c == FindIndex(mClients, project.clientId)
      st1 == [st EXCEPT !.attempted = Append(@, project.id)]
      r == createNotification(st.notifications,
             [type |-> "deadline_reminder", clientId |-> project.clientId,
              projectId |-> project.id, invoiceId |-> 0,
              userId |-> UserIdOf(project), priority |-> priority])
      mailed == [st1 EXCEPT !.notifications = r.notifications,
                            !.emitted = Append(@, project.id),
                            !.sends = Append(@, [channel |-> "email", projectId |-> project.id,
                                                 ok |-> project.id \notin emailFails])]
  IN IF c = 0 \/ r.threw THEN st1
     ELSE IF mClients[c].whatsapp # ""
     THEN [mailed EXCEPT !.sends = Append(@, [channel |-> "whatsapp", projectId |-> project.id,
                                               ok |-> project.id \notin whatsappFails])]
     ELSE mailed

RECURSIVE DeadlineLoop(_, _, _, _, _)
\* for (const project of projectsDueInN) await sendDeadlineNotifications(...)
DeadlineLoop(ps, priority, st, emailFails, whatsappFails) ==
  IF ps = <<>> THEN st
  ELSE DeadlineLoop(Tail(ps), priority,
         sendDeadlineNotifications(Head(ps), priority, st, emailFails, whatsappFails),
         emailFails, whatsappFails)

\* Project.find({ deadline: { $gte: from, $lte: to }, status: { $in: ['pending', 'in-progress'] } })
ProjectsDue(from, to) ==
  SelectSeq(mProjects, LAMBDA p : /\ p.deadline >= from /\ p.deadline <= to
                                  /\ p.status \in {"pending", "in-progress"})

Ids(docs) == [i \in Indexes(docs) |-> docs[i].id]

\* the elements of an array
Range(s) == {s[i] : i \in Indexes(s)}

\* checkUpcomingDeadlines
checkUpcomingDeadlines(emailFails, whatsappFails) ==
  LET projectsDueIn1Day == ProjectsDue(now, now + 1)
      projectsDueIn3Days == ProjectsDue(now + 2, now + 3)
      projectsDueIn7Days == ProjectsDue(now + 6, now + 7)
      st1 == DeadlineLoop(projectsDueIn1Day, "urgent", StartRun, emailFails, whatsappFails)
      st3 == DeadlineLoop(projectsDueIn3Days, "high", st1, emailFails, whatsappFails)
      st7 == DeadlineLoop(projectsDueIn7Days, "medium", st3, emailFails, whatsappFails)
  IN /\ notifications' = st7.notifications
     /\ run' = [job |-> "checkUpcomingDeadlines", prev |-> run.job,
                found |-> Ids(projectsDueIn1Day \o projectsDueIn3Days \o projectsDueIn7Days),
                attempted |-> st7.attempted, emitted |-> st7.emitted, sends |-> st7.sends]
     /\ UNCHANGED <<mClients, mProjects, mInvoices, now>>

RECURSIVE OverdueLoop(_, _)
\* the loop of checkOverdueProjects; an error leaves it for the catch of the job
OverdueLoop(ps, st) ==
  IF ps = <<>> THEN st
  ELSE LET project == Head(ps)
           c == FindIndex(mClients, project.clientId)
           st1 == [st EXCEPT !.attempted = Append(@, project.id)]
           r == createNotification(st.notifications,
                  [type |-> "system_alert", clientId |-> project.clientId,
                   projectId |-> project.id, invoiceId |-> 0,
                   userId |-> UserIdOf(project), priority |-> "urgent"])
       IN IF c = 0 \/ r.threw THEN st1
          ELSE OverdueLoop(Tail(ps), [st1 EXCEPT !.notifications = r.notifications,
                                                 !.emitted = Append(@, project.id)])

\* checkOverdueProjects
checkOverdueProjects ==
  LET overdueProjects ==
        SelectSeq(mProjects, LAMBDA p : /\ p.deadline < now
                                        /\ p.status \in {"pending", "in-progress"})
      st == OverdueLoop(overdueProjects, StartRun)
  IN /\ notifications' = st.notifications
     /\ run' = [job |-> "checkOverdueProjects", prev |-> run.job,
                found |-> Ids(overdueProjects),
                attempted |-> st.attempted, emitted |-> st.emitted, sends |-> st.sends]
     /\ UNCHANGED <<mClients, mProjects, mInvoices, now>>

RECURSIVE InvoiceLoop(_, _, _)
\* the loop of sendInvoiceReminders: the record, then remindersSent += 1 and save()
InvoiceLoop(is, st, saveFails) ==
  IF is = <<>> THEN st
  ELSE LET invoice == Head(is)
           c == FindIndex(mClients, invoice.clientId)
           i == FindIndex(st.invoices, invoice.id)
           st1 == [st EXCEPT !.attempted = Append(@, invoice.id)]
           r == createNotification(st.notifications,
                  [type |-> "system_alert", clientId |-> invoice.clientId,
                   projectId |-> 0, invoiceId |-> invoice.id,
                   userId |-> UserIdOf(invoice), priority |-> "high"])
           st2 == [st1 EXCEPT !.notifications = r.notifications,
                              !.emitted = Append(@, invoice.id)]
       IN IF c = 0 \/ r.threw THEN st1
          ELSE IF invoice.id \in saveFails THEN st2
          ELSE InvoiceLoop(Tail(is),
                 [st2 EXCEPT !.invoices[i].remindersSent = @ + 1,
                             !.invoices[i].lastReminderDate = <<now>>],
                 saveFails)

\* sendInvoiceReminders
sendInvoiceReminders(saveFails) ==
  LET thirtyDaysAgo == now - 30
      overdueInvoices ==
        SelectSeq(mInvoices, LAMBDA v : /\ v.status = "sent"
                                        /\ v.dueDate < now
                                        /\ v.createdAt >= thirtyDaysAgo)
      st == InvoiceLoop(overdueInvoices, StartRun, saveFails)
  IN /\ notifications' = st.notifications
     /\ mInvoices' = st.invoices
     /\ run' = [job |-> "sendInvoiceReminders", prev |-> run.job,
                found |-> Ids(overdueInvoices),
                attempted |-> st.attempted, emitted |-> st.emitted, sends |-> st.sends]
     /\ UNCHANGED <<mClients, mProjects, now>>

\* POST /api/notifications: a notification made by hand, for the user of the request
CreateNotification(body) ==
  LET r == createNotification(notifications,
             [type |-> body.type, clientId |-> OrNum(body, "clientId", 0),
              projectId |-> OrNum(body, "projectId", 0), invoiceId |-> 0,
              userId |-> <<1>>, priority |-> OrStr(body, "priority", "medium")])
  IN /\ notifications' = r.notifications
     /\ UNCHANGED <<mClients, mProjects, mInvoices, now, run>>

(***************************************************************************)
(* The project reminder jobs, run in any order and any number of times,    *)
(* at an instant and over a Project collection drawn from the documents    *)
(* Project saves leave.                                                    *)
(***************************************************************************)
\* the client of the projects and invoices, with a WhatsApp number
SweepClients == <<Spread(ClientDoc(1), [whatsapp |-> "+15550100"])>>

SweepStatuses == {"pending", "in-progress", "on-hold", "completed", "cancelled"}

\* a morning, and one a month later
Instants == {10, 45}

\* before the first instant, and one, three and seven days after it
Deadlines == {9, 11, 13, 17}

\* the fields of a Project document the jobs read
SweepProject(id, status, deadline) ==
  [id |-> id, clientId |-> 1, status |-> status, deadline |-> deadline]

RECURSIVE SweepProjects(_)
\* the collections of n projects, ids from 1
SweepProjects(n) ==
  IF n = 0 THEN {<<>>}
  ELSE {Append(ps, SweepProject(n, s, d)) :
          ps \in SweepProjects(n - 1), s \in SweepStatuses, d \in Deadlines}

InitJsonIdle ==
  /\ disk = LocalDisk
  /\ clients = <<>>
  /\ projects = <<>>
  /\ invoices = <<>>
  /\ nextId = 1
  /\ resp = NoResp
  /\ reqs = [s \in Slots |-> Idle]
  /\ started = 0
  /\ overlapped = FALSE

InitProjectSweeps ==
  /\ InitJsonIdle
  /\ mClients = SweepClients
  /\ \E n \in 0..MaxProjects : mProjects \in SweepProjects(n)
  /\ now \in Instants
  /\ mInvoices = <<>>
  /\ notifications = <<>>
  /\ run = NoRun

jsonVars == <<clients, projects, invoices, nextId, resp, disk>>

RunCheckUpcomingDeadlines ==
  /\ \E emailFails \in SUBSET Range(Ids(mProjects)), whatsappFails \in SUBSET Range(Ids(mProjects)) :
       checkUpcomingDeadlines(emailFails, whatsappFails)
  /\ Len(notifications') <= MaxNotifications
  /\ UNCHANGED <<jsonVars, raceVars>>

RunCheckOverdueProjects ==
  /\ checkOverdueProjects
  /\ Len(notifications') <= MaxNotifications
  /\ UNCHANGED <<jsonVars, raceVars>>

NotificationBodies ==
  {("type" :> "system_alert") @@ ("priority" :> "low"), ("type" :> "client_added") @@ ("clientId" :> 1)}

PostNotification ==
  /\ \E body \in NotificationBodies : CreateNotification(body)
  /\ Len(notifications') <= MaxNotifications
  /\ UNCHANGED <<jsonVars, raceVars>>

NextProjectSweeps == RunCheckUpcomingDeadlines \/ RunCheckOverdueProjects \/ PostNotification

SpecProjectSweeps == InitProjectSweeps /\ [][NextProjectSweeps]_vars

(***************************************************************************)
(* The invoice reminder job over an Invoice collection drawn from the      *)
(* documents Invoice saves leave.                                          *)
(***************************************************************************)
SweepInvoiceStatuses == {"draft", "sent", "paid"}

\* created a month ago or more, or within the month
CreatedAts == {0, 20}

\* due a week, or thirty days, after creation
Terms == {7, 30}

\* the fields of an Invoice document the job reads and writes
SweepInvoice(id, status, createdAt, term) ==
  [id |-> id, clientId |-> 1, status |-> status, createdAt |-> createdAt,
   dueDate |-> createdAt + term, remindersSent |-> 0, lastReminderDate |-> Null]

RECURSIVE SweepInvoices(_)
SweepInvoices(n) ==
  IF n = 0 THEN {<<>>}
  ELSE {Append(is, SweepInvoice(n, s, c, t)) :
          is \in SweepInvoices(n - 1), s \in SweepInvoiceStatuses,
          c \in CreatedAts, t \in Terms}

InitInvoiceSweeps ==
  /\ InitJsonIdle
  /\ mClients = SweepClients
  /\ mProjects = <<>>
  /\ now \in Instants
  /\ \E n \in 0..MaxInvoices : mInvoices \in SweepInvoices(n)
  /\ notifications = <<>>
  /\ run = NoRun

RunSendInvoiceReminders ==
  /\ \E saveFails \in SUBSET Range(Ids(mInvoices)) : sendInvoiceReminders(saveFails)
  /\ Len(notifications') <= MaxNotifications
  /\ \A i \in Indexes(mInvoices') : mInvoices'[i].remindersSent <= MaxReminders
  /\ UNCHANGED <<jsonVars, raceVars>>

NextInvoiceSweeps == RunSendInvoiceReminders \/ PostNotification

SpecInvoiceSweeps == InitInvoiceSweeps /\ [][NextInvoiceSweeps]_vars

(***************************************************************************)
(* utils/jsonDb over the files: initializeDatabase, readJsonFile,          *)
(* writeJsonFile, and invoiceDb and the invoice GET routes on top of them. *)
(***************************************************************************)
\* initializeDatabase: under VERCEL every file of the source db directory is
\* copied over the one in DB_DIR, '[]' where the source has none
initializeDatabase(d) ==
  IF d.vercel
  THEN [d EXCEPT !.db = [f \in Files |-> IF d.source[f].kind = "missing"
                                          THEN Json(<<>>) ELSE d.source[f]]]
  ELSE d

readJsonFile_Rethrow(d, filename) ==
  LET d1 == initializeDatabase(d)
      c == d1.db[filename]
  IN [disk |-> d1, data |-> IF c.kind = "json" THEN c.data ELSE <<>>,
      threw |-> c.kind # "json"]

\* readJsonFile: the files after it, what it returns, and whether it threw
readJsonFile(d, filename) ==
  LET d1 == initializeDatabase(d)
      c == d1.db[filename]
  IN [disk |-> d1, data |-> IF c.kind = "json" THEN c.data ELSE <<>>,
      threw |-> FALSE]

\* writeJsonFile
writeJsonFile(d, filename, data) == [d EXCEPT !.db[filename] = Json(data)]

\* GET /api/invoices: the three collections are read, the invoices answered
ListInvoices ==
  LET ri == readJsonFile(disk, "invoices.json")
      rc == readJsonFile(ri.disk, "clients.json")
      rp == readJsonFile(rc.disk, "projects.json")
  IN /\ disk' = rp.disk
     /\ resp' = IF ri.threw \/ rc.threw \/ rp.threw
                THEN Answer("GET /invoices", 0, <<>>, 500)
                ELSE Answer("GET /invoices", 0, ri.data, 200)
     /\ UNCHANGED nextId

\* GET /api/invoices/:id
GetInvoice(id) ==
  LET ri == readJsonFile(disk, "invoices.json")
      i == FindIndex(ri.data, id)
      rc == readJsonFile(ri.disk, "clients.json")
  IN /\ disk' = IF ri.threw \/ i = 0 THEN ri.disk ELSE rc.disk
     /\ resp' = IF ri.threw \/ (i # 0 /\ rc.threw) THEN Answer("GET /invoices/:id", id, <<>>, 500)
                ELSE IF i = 0 THEN Answer("GET /invoices/:id", id, <<>>, 404)
                ELSE Answer("GET /invoices/:id", id, <<ri.data[i]>>, 200)
     /\ UNCHANGED nextId

\* invoiceDb.create
FileCreate(invoiceData) ==
  LET r == readJsonFile(disk, "invoices.json")
      stored == invoiceDbCreate(r.data, invoiceData, nextId)
  IN /\ disk' = writeJsonFile(r.disk, "invoices.json", stored)
     /\ nextId' = nextId + 1
     /\ resp' = Answer("invoiceDb.create", nextId, stored, 200)

\* invoiceDb.update: null, and nothing written, when the id is not found
FileUpdate(id, updateData) ==
  LET r == readJsonFile(disk, "invoices.json")
      stored == invoiceDbUpdate(r.data, id, updateData)
  IN /\ UNCHANGED nextId
     /\ IF FindIndex(r.data, id) = 0
        THEN /\ disk' = r.disk
             /\ resp' = Answer("invoiceDb.update", id, <<>>, 404)
        ELSE /\ disk' = writeJsonFile(r.disk, "invoices.json", stored)
             /\ resp' = Answer("invoiceDb.update", id, stored, 200)

\* invoiceDb.delete: false, and nothing written, when the id is not found
FileDelete(id) ==
  LET r == readJsonFile(disk, "invoices.json")
      stored == invoiceDbDelete(r.data, id)
  IN /\ UNCHANGED nextId
     /\ IF FindIndex(r.data, id) = 0
        THEN /\ disk' = r.disk
             /\ resp' = Answer("invoiceDb.delete", id, <<>>, 404)
        ELSE /\ disk' = writeJsonFile(r.disk, "invoices.json", stored)
             /\ resp' = Answer("invoiceDb.delete", id, stored, 200)

\* invoiceDb.writeAll
FileWriteAll(invs) ==
  /\ disk' = writeJsonFile(disk, "invoices.json", invs)
  /\ resp' = Answer("invoiceDb.writeAll", 0, invs, 200)
  /\ UNCHANGED nextId

(***************************************************************************)
(* The store over files that start present, missing or unparsable, in a    *)
(* local process and under VERCEL.                                         *)
(***************************************************************************)
SeedInvoice == [id |-> 1, status |-> "draft"]

FileContents == {Missing, Corrupt, Json(<<>>), Json(<<SeedInvoice>>)}

\* the directories at start: locally DB_DIR is the source db directory
Disks ==
  {[vercel |-> FALSE, db |-> [LocalDisk.db EXCEPT !["invoices.json"] = c],
    source |-> [LocalDisk.db EXCEPT !["invoices.json"] = c]] : c \in FileContents}
  \cup
  {[vercel |-> TRUE, db |-> [LocalDisk.db EXCEPT !["invoices.json"] = c],
    source |-> [LocalDisk.db EXCEPT !["invoices.json"] = e]] :
     c \in {Missing, Json(<<>>)}, e \in FileContents}

InitDisk ==
  /\ clients = <<>>
  /\ projects = <<>>
  /\ invoices = <<>>
  /\ nextId = 2
  /\ resp = NoResp
  /\ disk \in Disks
  /\ reqs = [s \in Slots |-> Idle]
  /\ started = 0
  /\ overlapped = FALSE
  /\ mClients = <<>>
  /\ mProjects = <<>>
  /\ now = 0
  /\ mInvoices = <<>>
  /\ notifications = <<>>
  /\ run = NoRun

storeVars == <<clients, projects, invoices>>

DiskIds == 1..(MaxIds + 1)

DiskData == {[status |-> "draft"], [status |-> "sent"]}

DiskList == /\ ListInvoices /\ UNCHANGED <<storeVars, raceVars, mongoVars>>

DiskGet ==
  /\ \E id \in DiskIds : GetInvoice(id)
  /\ UNCHANGED <<storeVars, raceVars, mongoVars>>

DiskCreate ==
  /\ \E data \in DiskData : FileCreate(data)
  /\ nextId <= MaxIds
  /\ Len(disk'.db["invoices.json"].data) <= MaxInvoices
  /\ UNCHANGED <<storeVars, raceVars, mongoVars>>

DiskUpdate ==
  /\ \E id \in DiskIds, data \in DiskData : FileUpdate(id, data)
  /\ UNCHANGED <<storeVars, raceVars, mongoVars>>

DiskDelete ==
  /\ \E id \in DiskIds : FileDelete(id)
  /\ UNCHANGED <<storeVars, raceVars, mongoVars>>

DiskWriteAll ==
  /\ \E invs \in {<<>>, <<SeedInvoice>>} : FileWriteAll(invs)
  /\ UNCHANGED <<storeVars, raceVars, mongoVars>>

NextDisk == DiskList \/ DiskGet \/ DiskCreate \/ DiskUpdate \/ DiskDelete \/ DiskWriteAll

SpecDisk == InitDisk /\ [][NextDisk]_vars

(***************************************************************************)
(* GET /api/invoices/stats/overview, with the requests that write the      *)
(* invoices it counts, and the clock.                                      *)
(***************************************************************************)
RECURSIVE SumTotal(_)
\* .reduce((sum, i) => sum + (i.total || 0), 0)
SumTotal(invs) ==
  IF invs = <<>> THEN 0
  ELSE SumTotal(SubSeq(invs, 1, Len(invs) - 1)) + OrNum(invs[Len(invs)], "total", 0)

InvoiceOverview_SentOnly(invs) ==
  [total |-> Len(invs),
   draft |-> Len(SelectSeq(invs, LAMBDA i : i.status = "draft")),
   sent |-> Len(SelectSeq(invs, LAMBDA i : i.status = "sent")),
   paid |-> Len(SelectSeq(invs, LAMBDA i : i.status = "paid")),
   overdue |-> Len(SelectSeq(invs, LAMBDA i : i.status # "paid" /\ i.dueDate < now)),
   totalRevenue |-> SumTotal(SelectSeq(invs, LAMBDA i : i.status = "paid")),
   pendingAmount |-> SumTotal(SelectSeq(invs, LAMBDA i : i.status = "sent"))]

\* the overview of GET /api/invoices/stats/overview
InvoiceOverview(invs) ==
  [total |-> Len(invs),
   draft |-> Len(SelectSeq(invs, LAMBDA i : i.status = "draft")),
   sent |-> Len(SelectSeq(invs, LAMBDA i : i.status = "sent")),
   paid |-> Len(SelectSeq(invs, LAMBDA i : i.status = "paid")),
   overdue |-> Len(SelectSeq(invs, LAMBDA i : i.status # "paid" /\ i.dueDate < now)),
   totalRevenue |-> SumTotal(SelectSeq(invs, LAMBDA i : i.status = "paid")),
   pendingAmount |-> SumTotal(SelectSeq(invs, LAMBDA i : i.status \in {"sent", "overdue"}))]

\* GET /api/invoices/stats/overview
GetInvoiceStats ==
  /\ resp' = Answer("GET /invoices/stats/overview", 0, InvoiceOverview(invoices), 200)
  /\ UNCHANGED <<clients, projects, invoices, nextId>>

\* a day passes
Tick ==
  /\ now < MaxTime
  /\ now' = now + 1
  /\ UNCHANGED <<jsonVars, raceVars, mClients, mProjects, sweepVars>>

StatsPostBodies ==
  {("clientId" :> 1) @@ ("items" :> <<Item(1, 50)>>) @@ d : d \in Opt("dueDate", {1})}

StatsStatusBodies == {("status" :> s) : s \in {"sent", "paid", "overdue"}}

PostInvoiceStats ==
  /\ \E body \in StatsPostBodies : CreateInvoice(body)
  /\ invoices' # invoices => (Len(invoices) < MaxInvoices /\ nextId <= MaxIds)
  /\ UNCHANGED otherVars

PutInvoiceStatusStats ==
  /\ \E id \in InvoiceIds, body \in StatsStatusBodies : UpdateInvoiceStatus(id, body)
  /\ UNCHANGED otherVars

GetStats == GetInvoiceStats /\ UNCHANGED otherVars

NextInvoiceStats == PostInvoiceStats \/ PutInvoiceStatusStats \/ DelInvoice \/ GetStats \/ Tick

SpecInvoiceStats == InitInvoices /\ [][NextInvoiceStats]_vars

(***************************************************************************)
(* GET /api/projects/stats/overview, with the requests that write the      *)
(* projects it counts, and the clock.                                      *)
(***************************************************************************)
RECURSIVE SumField(_, _)
\* projects.reduce((sum, p) => sum + (p[f] || 0), 0)
SumField(prs, f) ==
  IF prs = <<>> THEN 0
  ELSE SumField(SubSeq(prs, 1, Len(prs) - 1), f) + OrNum(prs[Len(prs)], f, 0)

\* Math.round(sum / n) of non-negative integers
RoundDiv(sum, n) == (2 * sum + n) \div (2 * n)

\* the overview of GET /api/projects/stats/overview
ProjectOverview(prs) ==
  [total |-> Len(prs),
   active |-> Len(SelectSeq(prs, LAMBDA p : p.status \in {"pending", "in-progress"})),
   completed |-> Len(SelectSeq(prs, LAMBDA p : p.status = "completed")),
   overdue |-> Len(SelectSeq(prs, LAMBDA p :
                 IF p.endDate = Null THEN FALSE
                 ELSE p.endDate[1] < now /\ p.status # "completed")),
   totalBudget |-> SumField(prs, "budget"),
   avgProgress |-> IF Len(prs) > 0 THEN RoundDiv(SumField(prs, "progress"), Len(prs)) ELSE 0]

\* GET /api/projects/stats/overview
GetProjectStats ==
  /\ resp' = Answer("GET /projects/stats/overview", 0, ProjectOverview(projects), 200)
  /\ UNCHANGED <<clients, projects, invoices, nextId>>

StatsProjectBodies ==
  {("title" :> "Site") @@ ("clientId" :> 1) @@ e @@ s :
     e \in Opt("endDate", {1}), s \in Opt("status", {"completed", "cancelled"})}

StatsProjectPatches == {("status" :> s) : s \in {"in-progress", "cancelled"}}

PostProjectStats ==
  /\ \E body \in StatsProjectBodies : CreateProject(body)
  /\ projects' # projects => (Len(projects) < MaxProjects /\ nextId <= MaxIds)
  /\ UNCHANGED otherVars

PutProjectStats ==
  /\ \E id \in AllIds, body \in StatsProjectPatches : UpdateProject(id, body)
  /\ UNCHANGED otherVars

GetProjectsOverview == GetProjectStats /\ UNCHANGED otherVars

NextProjectStats ==
  PostProjectStats \/ PutProjectStats \/ DelProject \/ GetProjectsOverview \/ Tick

SpecProjectStats == InitInvoices /\ [][NextProjectStats]_vars

(***************************************************************************)
(* Project saves while the clock advances: completing a project, leaving   *)
(* completed and completing it again.                                      *)
(***************************************************************************)
CompletionData ==
  {("clientId" :> 1) @@ ("amount" :> 500) @@ s : s \in Opt("status", {"completed"})}

CompletionPatches ==
  {("status" :> s) : s \in {"in-progress", "completed"}} \cup {("amount" :> 1000)}

SaveNewCompletion ==
  /\ Len(mProjects) < MaxProjects
  /\ \E data \in CompletionData : ProjectSaveNew(data)
  /\ UNCHANGED <<raceVars, sweepVars, diskVars>>

SaveCompletion ==
  /\ \E i \in Indexes(mProjects), patch \in CompletionPatches :
       ProjectSaveModified(mProjects[i].id, patch)
  /\ UNCHANGED <<raceVars, sweepVars, diskVars>>

NextCompletion == SaveNewCompletion \/ SaveCompletion \/ Tick

SpecCompletion == InitModels /\ [][NextCompletion]_vars

(***************************************************************************)
(* models/Invoice: the pre-save hook, next to POST /api/invoices on the    *)
(* same items and rates.                                                   *)
(***************************************************************************)
RECURSIVE SumAmounts(_)
\* this.items.reduce((sum, item) => sum + item.amount, 0)
SumAmounts(items) ==
  IF items = <<>> THEN 0
  ELSE SumAmounts(SubSeq(items, 1, Len(items) - 1)) + items[Len(items)].amount

\* invoiceSchema.pre('save')
invoicePreSave(doc) ==
  LET subtotal == SumAmounts(doc.items)
      taxAmount == (subtotal * doc.taxRate) \div 100
      discountAmount == (subtotal * doc.discountRate) \div 100
  IN Spread(doc, [subtotal |-> subtotal, taxAmount |-> taxAmount,
                  discountAmount |-> discountAmount,
                  total |-> subtotal + taxAmount - discountAmount])

\* new Invoice(data).save(): taxRate and discountRate default to 0
InvoiceSave(data) ==
  /\ mInvoices' = Append(mInvoices,
                         invoicePreSave([items |-> data.items,
                                         taxRate |-> OrNum(data, "taxRate", 0),
                                         discountRate |-> OrNum(data, "discountRate", 0)]))
  /\ resp' = Answer("Invoice.save", 0, NoBody, 200)
  /\ UNCHANGED <<clients, projects, invoices, nextId, disk>>
  /\ UNCHANGED <<raceVars, mClients, mProjects, now, notifications, run>>

RateItemLists == {<<Item(2, 50)>>, <<Item(1, 30), Item(2, 50)>>}

Rates == {0, 10, 50}

RatePostBodies ==
  {("clientId" :> 1) @@ ("items" :> l) @@ d @@ t :
     l \in RateItemLists, d \in Opt("discount", Rates), t \in Opt("tax", Rates)}

RateDocs ==
  {("items" :> MapItems(l)) @@ d @@ t :
     l \in RateItemLists, d \in Opt("discountRate", Rates), t \in Opt("taxRate", Rates)}

PostInvoiceRates ==
  /\ \E body \in RatePostBodies : CreateInvoice(body)
  /\ invoices' # invoices => (invoices = <<>> /\ nextId <= MaxIds)
  /\ UNCHANGED otherVars

SaveInvoiceRates ==
  /\ mInvoices = <<>>
  /\ \E data \in RateDocs : InvoiceSave(data)

NextInvoiceModels == PostInvoiceRates \/ SaveInvoiceRates \/ DelInvoice

SpecInvoiceModels == InitInvoices /\ [][NextInvoiceModels]_vars

(***************************************************************************)
(* Project requests, one after another, over two stored clients: POST,     *)
(* PUT with and without a change of client, DELETE.                        *)
(***************************************************************************)
Bolt == [name |-> "Bolt", email |-> "b@bolt.io"]

InitTwoClients ==
  /\ clients = <<NewClient(Acme, 1), NewClient(Bolt, 2)>>
  /\ projects = <<>>
  /\ invoices = <<>>
  /\ nextId = 3
  /\ resp = NoResp
  /\ InitOther

CounterPostBodies == {("title" :> "Site") @@ ("clientId" :> c) : c \in {1, 2, 9}}

CounterPutBodies ==
  {("clientId" :> c) : c \in {1, 2}} \cup {("status" :> "completed")}

PostProjectCounters ==
  /\ \E body \in CounterPostBodies : CreateProject(body)
  /\ projects' # projects => (Len(projects) < MaxProjects /\ nextId <= MaxIds + 2)
  /\ UNCHANGED otherVars

PutProjectCounters ==
  /\ \E id \in 3..(MaxIds + 3), body \in CounterPutBodies : UpdateProject(id, body)
  /\ UNCHANGED otherVars

DelProjectCounters ==
  /\ \E id \in 3..(MaxIds + 3) : DeleteProject(id)
  /\ UNCHANGED otherVars

NextProjectCounters == PostProjectCounters \/ PutProjectCounters \/ DelProjectCounters

SpecProjectCounters == InitTwoClients /\ [][NextProjectCounters]_vars

(***************************************************************************)
(* PUT /api/invoices/:id with bodies that name the fields the store        *)
(* assigns itself: id, invoiceNumber, createdAt.                           *)
(***************************************************************************)
IdentityPutBodies ==
  {("id" :> 9), ("id" :> 3), ("invoiceNumber" :> "INV-0009"), ("createdAt" :> 1),
   ("items" :> <<Item(1, 30)>>)}

PostInvoiceIdentity ==
  /\ CreateInvoice(ValidPost)
  /\ invoices' # invoices => (Len(invoices) < MaxInvoices /\ nextId <= MaxIds)
  /\ UNCHANGED otherVars

PutInvoiceIdentity ==
  /\ \E id \in InvoiceIds, body \in IdentityPutBodies : UpdateInvoice(id, body)
  /\ UNCHANGED otherVars

NextInvoiceIdentity == PostInvoiceIdentity \/ PutInvoiceIdentity \/ DelInvoice \/ Tick

SpecInvoiceIdentity == InitInvoices /\ [][NextInvoiceIdentity]_vars

(***************************************************************************)
(* Properties.                                                             *)
(***************************************************************************)
StoredInvoice(id) == invoices[FindIndex(invoices, id)]

\* C1: DELETE /invoices/:id answers 200 and removes the invoice exactly when its
\* stored status is draft; for every other stored status it answers 400 and the
\* collection is unchanged (so create, then status sent, then delete is rejected).
C1_DeleteOnlyDraft ==
  [][resp'.op = "DELETE /invoices/:id" =>
       LET i == FindIndex(invoices, resp'.id) IN
       /\ (i # 0 /\ invoices[i].status = "draft") =>
            /\ resp'.code = 200
            /\ invoices' = Splice(invoices, i)
            /\ FindIndex(invoices', resp'.id) = 0
       /\ (i # 0 /\ invoices[i].status # "draft") =>
            /\ resp'.code = 400
            /\ invoices' = invoices
       /\ resp'.code = 200 => (i # 0 /\ invoices[i].status = "draft")]_vars

\* C1 witness: a delete of an invoice whose stored status is sent was rejected.
C1_Witness ==
  /\ resp.op = "DELETE /invoices/:id"
  /\ resp.code = 400
  /\ FindIndex(invoices, resp.id) # 0
  /\ StoredInvoice(resp.id).status = "sent"

\* C2: the totals stored by POST /invoices satisfy subtotal = sum of quantity*rate
\* >= 0, discountAmount = subtotal*discount/100, taxAmount = (subtotal -
\* discountAmount)*tax/100 (on the post-discount amount, not the raw subtotal),
\* total = subtotal - discountAmount + taxAmount; [{2, 50}], 10, 8 gives
\* 100, 10, 7.2, 97.2; the form's calculateTotals agrees.
C2_CreatedTotals ==
  (resp.op = "POST /invoices" /\ resp.code = 201) =>
    LET inv == StoredInvoice(resp.id) IN
    /\ inv.subtotal = SumQR(inv.items)
    /\ inv.subtotal >= 0
    /\ inv.discountAmount * 100 = inv.subtotal * inv.discount
    /\ inv.taxAmount * 100 = (inv.subtotal - inv.discountAmount) * inv.tax
    /\ (inv.discountAmount > 0 /\ inv.tax > 0) => inv.taxAmount * 100 # inv.subtotal * inv.tax
    /\ inv.total = inv.subtotal - inv.discountAmount + inv.taxAmount
    /\ (inv.items = MapItems(<<Item(2, 50)>>) /\ inv.discount = 10 /\ inv.tax = 8) =>
         /\ inv.subtotal = 100 * Scale
         /\ inv.discountAmount = 10 * Scale
         /\ inv.taxAmount * 10 = 72 * Scale
         /\ inv.total * 10 = 972 * Scale
    /\ calculateTotals(inv) =
         [subtotal |-> inv.subtotal, discountAmount |-> inv.discountAmount,
          taxAmount |-> inv.taxAmount, total |-> inv.total]

\* C2 witness: the invoice [{2, 50}], discount 10, tax 8 was created.
C2_Witness ==
  /\ resp.op = "POST /invoices"
  /\ resp.code = 201
  /\ StoredInvoice(resp.id).items = MapItems(<<Item(2, 50)>>)
  /\ StoredInvoice(resp.id).discount = 10
  /\ StoredInvoice(resp.id).tax = 8
  /\ StoredInvoice(resp.id).total * 10 = 972 * Scale

RECURSIVE SumAmount(_)
SumAmount(items) ==
  IF items = <<>> THEN 0 ELSE items[1].amount + SumAmount(Tail(items))

\* C3: every stored invoice's totals agree with its own stored items, discount
\* and tax, in every state reachable by POST /invoices, PUT /invoices/:id and
\* PUT /invoices/:id/status.
C3_StoredTotalsConsistent ==
  \A i \in Indexes(invoices) :
    LET inv == invoices[i] IN
    /\ inv.subtotal = SumAmount(inv.items)
    /\ inv.discountAmount * 100 = inv.subtotal * inv.discount
    /\ inv.taxAmount * 100 = (inv.subtotal - inv.discountAmount) * inv.tax
    /\ inv.total = inv.subtotal - inv.discountAmount + inv.taxAmount

\* C4: a PUT /invoices/:id/status request changes at most the status of the
\* invoice it names: its every other field (items, subtotal, discount,
\* discountAmount, tax, taxAmount, total, invoiceNumber, id, ...) and every
\* other invoice of the collection are as before.
C4_StatusOnlyFrame ==
  [][resp'.op = "PUT /invoices/:id/status" =>
       /\ Len(invoices') = Len(invoices)
       /\ \A i \in Indexes(invoices) :
            /\ DOMAIN invoices'[i] = DOMAIN invoices[i]
            /\ \A f \in DOMAIN invoices[i] :
                 (f # "status" \/ invoices[i].id # resp'.id) =>
                    invoices'[i][f] = invoices[i][f]]_vars

\* C4 witness: of two stored invoices with totals, one was marked paid by a
\* status request.
C4_Witness ==
  /\ resp.op = "PUT /invoices/:id/status"
  /\ resp.code = 200
  /\ Len(invoices) = 2
  /\ StoredInvoice(resp.id).status = "paid"
  /\ StoredInvoice(resp.id).total > 0
  /\ \E i \in Indexes(invoices) : invoices[i].status = "draft"

AllowedTransitions ==
  {<<"draft", "sent">>, <<"sent", "paid">>, <<"draft", "cancelled">>, <<"sent", "cancelled">>}

\* C5: an invoice is created in status draft and its stored status only ever
\* changes along draft->sent, sent->paid, draft->cancelled, sent->cancelled,
\* whichever request asks for the change.
C5_StatusTransitions ==
  [][\A j \in Indexes(invoices') :
       LET i == FindIndex(invoices, invoices'[j].id) IN
       IF i = 0 THEN invoices'[j].status = "draft"
       ELSE \/ invoices'[j].status = invoices[i].status
            \/ <<invoices[i].status, invoices'[j].status>> \in AllowedTransitions]_vars

\* C6: no stored invoice ever has status overdue.
C6_OverdueNeverStored == \A i \in Indexes(invoices) : invoices[i].status # "overdue"

\* C7: POST /clients answers 400 and leaves the clients collection unchanged when
\* a stored client has the given email; otherwise (name and email given) it
\* answers 201 and appends exactly one client, whose totalProjects and
\* totalRevenue are 0 whatever the body carries.
C7_CreateClient ==
  [][resp'.op = "POST /clients" =>
       LET body == resp'.body IN
       IF TruthyStr(body, "email") /\ \E i \in Indexes(clients) : clients[i].email = body.email
       THEN resp'.code = 400 /\ clients' = clients
       ELSE IF TruthyStr(body, "name") /\ TruthyStr(body, "email")
       THEN /\ resp'.code = 201
            /\ Len(clients') = Len(clients) + 1
            /\ SubSeq(clients', 1, Len(clients)) = clients
            /\ clients'[Len(clients')].email = body.email
            /\ clients'[Len(clients')].totalProjects = 0
            /\ clients'[Len(clients')].totalRevenue = 0
       ELSE resp'.code = 400 /\ clients' = clients]_vars

\* C7 witness: a second client was created from a body that carries
\* totalProjects = 5 and totalRevenue = 900.
C7_Witness ==
  /\ resp.op = "POST /clients"
  /\ resp.code = 201
  /\ Has(resp.body, "totalProjects") /\ resp.body.totalProjects = 5
  /\ Len(clients) = 2
  /\ clients[2].id = resp.id
  /\ clients[2].totalProjects = 0

UniqueEmails ==
  \A i, j \in Indexes(clients) : clients[i].email = clients[j].email => i = j

\* C8 as claimed: no two stored clients have the same email, also when the
\* requests interleave between their read of the collection and their write.
C8_UniqueEmails == UniqueEmails

\* C8 as amended: no two stored clients have the same email as long as the
\* requests have run one after another (none started while another was between
\* its read and its write).
C8_UniqueEmailsSequential == ~overlapped => UniqueEmails

\* C8 witness: requests run one after another have stored two clients and the
\* last one, a POST with a stored email, was rejected.
C8_Witness ==
  /\ ~overlapped
  /\ Len(clients) = 2
  /\ resp.op = "POST /clients"
  /\ resp.code = 400
  /\ \A s \in Slots : ~Busy(s)

\* C9: POST /projects with a clientId that matches no stored client answers 400,
\* stores no project and leaves the clients collection (every totalProjects and
\* totalRevenue) unchanged.
C9_UnknownClientRejected ==
  [][(/\ resp'.op = "POST /projects"
      /\ TruthyNum(resp'.body, "clientId")
      /\ \A i \in Indexes(clients) : clients[i].id # resp'.body.clientId) =>
       /\ resp'.code = 400
       /\ projects' = projects
       /\ clients' = clients]_vars

\* C9 witness: a POST /projects with a title and the id of no stored client was
\* rejected while a client with a counted project is stored.
C9_Witness ==
  /\ resp.op = "POST /projects"
  /\ resp.code = 400
  /\ TruthyStr(resp.body, "title")
  /\ TruthyNum(resp.body, "clientId")
  /\ \A i \in Indexes(clients) : clients[i].id # resp.body.clientId
  /\ \E i \in Indexes(clients) : clients[i].totalProjects = 1
  /\ Len(projects) = 1

RECURSIVE RevenueOver(_)
RevenueOver(is) ==
  IF is = {} THEN 0
  ELSE LET i == CHOOSE x \in is : TRUE
       IN mProjects[i].amount + RevenueOver(is \ {i})

\* C10: after a project is saved, its owning client's counters are recomputed
\* from its projects: totalProjects = the number of projects of that client,
\* totalRevenue = the sum of amount over those that are completed; a client
\* whose one project is {amount 1000, completed} has totalRevenue = 1000.
C10_StatsAfterSave ==
  resp.op = "Project.save" =>
    LET p == mProjects[FindIndex(mProjects, resp.id)]
        o == FindIndex(mClients, p.clientId)
        mine == {i \in Indexes(mProjects) : mProjects[i].clientId = p.clientId}
        done == {i \in mine : mProjects[i].status = "completed"}
    IN o # 0 =>
         /\ mClients[o].totalProjects = Cardinality(mine)
         /\ mClients[o].totalRevenue = RevenueOver(done)
         /\ (mine = done /\ Cardinality(mine) = 1 /\ p.amount = 1000) =>
              mClients[o].totalRevenue = 1000

\* C10 witness: a client that owns two projects, one {amount 1000, completed}
\* and one not completed, after a save of one of them.
C10_Witness ==
  /\ resp.op = "Project.save"
  /\ Len(mProjects) = 2
  /\ mProjects[1].clientId = 1 /\ mProjects[2].clientId = 1
  /\ mProjects[1].status = "completed" /\ mProjects[1].amount = 1000
  /\ mProjects[2].status = "pending"
  /\ mClients[1].totalProjects = 2
  /\ mClients[1].totalRevenue = 1000

\* C11: POST /invoices stores an invoice only if its clientId is the id of a
\* stored client, its projectId (when given) is the id of a stored project,
\* and it has at least one item.
C11_StoredOnlyIfResolvable ==
  [][(resp'.op = "POST /invoices" /\ invoices' # invoices) =>
       LET inv == invoices'[Len(invoices')]
       IN /\ clientDbFindById(clients, inv.clientId) # 0
          /\ inv.projectId # 0 => projectDbFindById(projects, inv.projectId) # 0
          /\ Len(inv.items) > 0]_vars

\* C12: no stored invoice has an empty item list (PUT /invoices/:id with an
\* empty items list is rejected and leaves the stored invoice unchanged).
C12_ItemsNeverEmpty ==
  \A i \in Indexes(invoices) : Len(invoices[i].items) > 0

\* C13: invoice numbers are not reused: after requests handled one after
\* another, no two stored invoices share an invoiceNumber.
C13_NumbersUnique ==
  \A i, j \in Indexes(invoices) :
    invoices[i].invoiceNumber = invoices[j].invoiceNumber => i = j

\* C14: concurrent invoice creations race to the same number: two POST
\* /invoices requests that read the invoice collection at the same length
\* (both read before either writes) are answered with the same invoiceNumber,
\* whatever the collection holds when each of them writes.
C14_SameReadSameNumber ==
  \A s, t \in Slots :
    (reqs[s].pc = "done" /\ reqs[t].pc = "done" /\ reqs[s].seen = reqs[t].seen)
      => reqs[s].invoice.invoiceNumber = reqs[t].invoice.invoiceNumber

\* C14 witness: two requests both read the empty collection, the second one's
\* create read the first one's invoice, and both have been answered 201 with
\* the same invoiceNumber, which two stored invoices now carry.
C14_Witness ==
  /\ overlapped
  /\ reqs[1].pc = "done" /\ reqs[2].pc = "done"
  /\ reqs[1].code = 201 /\ reqs[2].code = 201
  /\ reqs[1].invoice.id # reqs[2].invoice.id
  /\ reqs[1].invoice.invoiceNumber = reqs[2].invoice.invoiceNumber
  /\ Len(invoices) = 2
  /\ invoices[1].invoiceNumber = invoices[2].invoiceNumber

\* how many times id occurs in a list of ids
Count(ids, id) == Cardinality({i \in Indexes(ids) : ids[i] = id})

\* C15: a run of the overdue-project sweep emits exactly one notification for
\* every project whose deadline is in the past and whose status is neither
\* completed nor cancelled, and none for any other project.
C15_OverdueSweepEmits ==
  run.job = "checkOverdueProjects" =>
    \A i \in Indexes(mProjects) :
      Count(run.emitted, mProjects[i].id) =
        IF mProjects[i].deadline < now /\ mProjects[i].status \notin {"completed", "cancelled"}
        THEN 1 ELSE 0

\* C16: a run of the invoice reminder job emits exactly one notification for
\* every invoice whose dueDate is in the past and whose status is sent, and
\* none for any other invoice.
C16_InvoiceSweepEmits ==
  run.job = "sendInvoiceReminders" =>
    \A i \in Indexes(mInvoices) :
      Count(run.emitted, mInvoices[i].id) =
        IF mInvoices[i].dueDate < now /\ mInvoices[i].status = "sent" THEN 1 ELSE 0

\* C17: in a deadline reminder the channels are independent: for every project
\* the sweep found, the in-app notification record exists and, the client
\* having a WhatsApp number, the WhatsApp send was attempted, whether the
\* email send failed or not.
C17_ChannelsIndependent ==
  run.job = "checkUpcomingDeadlines" =>
    \A k \in Indexes(run.found) :
      /\ Count(run.emitted, run.found[k]) = 1
      /\ \E m \in Indexes(run.sends) :
           run.sends[m].channel = "whatsapp" /\ run.sends[m].projectId = run.found[k]

\* C18: a sweep isolates failures per entity: every entity it found is
\* handled, whatever failed for the ones before it.
C18_EveryFoundHandled ==
  run.attempted = run.found

\* C19: no deduplication: after the same deadline or overdue sweep has run
\* twice in a row, there are two notification records for each project it
\* found.
C19_TwoRunsTwoRecords ==
  (run.job = run.prev /\ run.job \in {"checkUpcomingDeadlines", "checkOverdueProjects"}) =>
    \A k \in Indexes(run.found) :
      Cardinality({n \in Indexes(notifications) :
                     /\ notifications[n].projectId = run.found[k]
                     /\ notifications[n].type = IF run.job = "checkOverdueProjects"
                                                THEN "system_alert" ELSE "deadline_reminder"}) >= 2

C21_UnreadableReadsEmpty ==
  [][(initializeDatabase(disk).db["invoices.json"].kind \in {"missing", "corrupt"}) =>
       /\ resp'.op = "GET /invoices" => (resp'.code = 200 /\ resp'.body = <<>>)
       /\ resp'.op = "GET /invoices/:id" => resp'.code = 404]_vars

\* C21 witness: GET /invoices answered 200 with no invoice over an invoices
\* file that does not parse.
C21_Witness ==
  /\ resp.op = "GET /invoices" /\ resp.code = 200 /\ resp.body = <<>>
  /\ disk.db["invoices.json"].kind = "corrupt"

\* C30: read-your-writes, locally and under VERCEL: after a create, update,
\* delete or writeAll on the invoice collection has completed, the next read
\* of the collection returns exactly the content that was written.
C30_ReadYourWrites ==
  (resp.op \in {"invoiceDb.create", "invoiceDb.update", "invoiceDb.delete", "invoiceDb.writeAll"}
   /\ resp.code = 200)
    => readJsonFile(disk, "invoices.json").data = resp.body

RECURSIVE TotalOver(_)
TotalOver(is) ==
  IF is = {} THEN 0
  ELSE LET i == CHOOSE x \in is : TRUE
       IN invoices[i].total + TotalOver(is \ {i})

WithStatus(ss) == {i \in Indexes(invoices) : invoices[i].status \in ss}

\* C22: GET /invoices/stats/overview answers from the invoice collection and
\* the clock as they are at the call: totalRevenue = sum of total over paid
\* invoices, pendingAmount = sum of total over invoices stored as sent or
\* overdue, overdue = number of invoices with dueDate < now and status not
\* paid, total/draft/sent/paid = the counts.
C22_StatsFromStore ==
  [][(resp'.op = "GET /invoices/stats/overview" /\ now' = now) =>
       /\ invoices' = invoices
       /\ resp'.body.total = Len(invoices)
       /\ resp'.body.draft = Cardinality(WithStatus({"draft"}))
       /\ resp'.body.sent = Cardinality(WithStatus({"sent"}))
       /\ resp'.body.paid = Cardinality(WithStatus({"paid"}))
       /\ resp'.body.totalRevenue = TotalOver(WithStatus({"paid"}))
       /\ resp'.body.pendingAmount = TotalOver(WithStatus({"sent", "overdue"}))
       /\ resp'.body.overdue =
            Cardinality({i \in Indexes(invoices) :
                           invoices[i].dueDate < now /\ invoices[i].status # "paid"})]_vars

\* C22 witness: an overview over one paid invoice and one stored as overdue
\* and past its due date.
C22_Witness ==
  /\ resp.op = "GET /invoices/stats/overview"
  /\ Len(invoices) = 2
  /\ invoices[1].status = "paid" /\ invoices[2].status = "overdue"
  /\ invoices[2].dueDate < now
  /\ resp.body.totalRevenue = invoices[1].total
  /\ resp.body.pendingAmount = invoices[2].total
  /\ resp.body.overdue >= 1

\* C23: GET /projects/stats/overview counts as overdue exactly the projects
\* that have an endDate before the clock and a status that is neither
\* completed nor cancelled.
C23_OverdueExcludesCancelled ==
  [][(resp'.op = "GET /projects/stats/overview" /\ now' = now) =>
       resp'.body.overdue =
         Cardinality({i \in Indexes(projects) :
                        /\ projects[i].endDate # Null
                        /\ projects[i].endDate[1] < now
                        /\ projects[i].status \notin {"completed", "cancelled"}})]_vars

\* C24: every stored project's clientId is the id of a stored client, in
\* every state reachable by client and project requests, client deletion
\* included.
C24_ProjectClientResolves ==
  \A i \in Indexes(projects) : clientDbFindById(clients, projects[i].clientId) # 0

\* C25: a project's completedDate is null until the save in which its status
\* becomes completed, is set to the clock by that save, and is never changed
\* by a later save -- leaving completed and completing again included.
C25_CompletedDateSetOnce ==
  [][(\A i \in Indexes(mProjects) :
        LET was == mProjects[i]
            saved == mProjects'[i]
        IN /\ saved.id = was.id
           /\ was.completedDate # Null => saved.completedDate = was.completedDate
           /\ (was.completedDate = Null /\ saved.completedDate # Null) =>
                (was.status # "completed" /\ saved.status = "completed"
                   /\ saved.completedDate = <<now>>)
           /\ (was.status # "completed" /\ saved.status = "completed") =>
                saved.completedDate # Null)
     /\ (\A k \in Indexes(mProjects') \ Indexes(mProjects) :
          IF mProjects'[k].status = "completed"
          THEN mProjects'[k].completedDate = <<now>>
          ELSE mProjects'[k].completedDate = Null)]_vars

\* C25 witness: a project saved out of completed at a later time than its
\* completion, still carrying the date of that completion.
C25_Witness ==
  /\ resp.op = "Project.save"
  /\ \E i \in Indexes(mProjects) :
       /\ mProjects[i].id = resp.id
       /\ mProjects[i].status = "in-progress"
       /\ mProjects[i].completedDate # Null
       /\ mProjects[i].completedDate[1] < now

\* C26: a whole-collection overwrite is last-write-wins: the write of a
\* request replaces clients.json by the copy that request read and modified,
\* whatever another request wrote in between, and the request answers
\* success.
C26_LastWriteWins ==
  [][\A slot \in Slots :
       (reqs[slot].pc \in {"write", "writeAll"} /\ reqs'[slot] = Idle) =>
          /\ resp'.code \in {200, 201}
          /\ clients' = IF reqs[slot].pc = "writeAll"
                        THEN reqs[slot].snapshot
                        ELSE Append(reqs[slot].snapshot, reqs[slot].data)]_vars

\* C26 witness: two creates were accepted and both have answered, and the
\* store holds only the client of the later write.
C26_Witness ==
  /\ started = 2
  /\ nextId = 3
  /\ \A slot \in Slots : reqs[slot] = Idle
  /\ resp.op = "POST /clients" /\ resp.code = 201
  /\ Len(clients) = 1
  /\ clients[1].id = resp.id

\* C27: for equal items, discount rate and tax rate, the Invoice model's
\* pre-save hook and POST /invoices store the same taxAmount and the same
\* total.
C27_HookMatchesRoute ==
  \A i \in Indexes(invoices), j \in Indexes(mInvoices) :
    (/\ invoices[i].items = mInvoices[j].items
     /\ invoices[i].discount = mInvoices[j].discountRate
     /\ invoices[i].tax = mInvoices[j].taxRate)
    => /\ mInvoices[j].taxAmount = invoices[i].taxAmount
       /\ mInvoices[j].total = invoices[i].total

\* C28: after any sequence of POST /projects, PUT /projects/:id and
\* DELETE /projects/:id, one after another, each client's totalProjects is
\* the number of stored projects of that client, and is not negative.
C28_TotalProjectsIsCount ==
  \A c \in Indexes(clients) :
    /\ clients[c].totalProjects >= 0
    /\ clients[c].totalProjects =
         Cardinality({p \in Indexes(projects) : projects[p].clientId = clients[c].id})

\* C29: no PUT /invoices/:id, whatever its body holds, changes the stored
\* invoice's id, invoiceNumber or createdAt: after the request the invoice is
\* found under the id of the request with the number and creation time it
\* had, and the stored ids stay pairwise distinct.
C29_IdentityImmutable ==
  [][(resp'.op = "PUT /invoices/:id" /\ resp'.code = 200 /\ invoices' # invoices) =>
       LET k == invoiceDbFindById(invoices, resp'.id) IN
       /\ invoices'[k].id = invoices[k].id
       /\ invoices'[k].invoiceNumber = invoices[k].invoiceNumber
       /\ invoices'[k].createdAt = invoices[k].createdAt
       /\ \A i, j \in Indexes(invoices') :
            invoices'[i].id = invoices'[j].id => i = j]_vars

====
